---- MODULE Spec2Model ----
(***************************************************************************)
(* Model of the Anki Leech Actions add-on:                                 *)
(*   - migrations.py : v1, v2, v3, run_migrations                          *)
(*   - main.py       : Rule.from_raw, ConfigManager, LeechActionManager    *)
(* Python values are modelled as tagged records so that values of          *)
(* different Python types can live in one dictionary and be compared.      *)
(***************************************************************************)
EXTENDS Integers, Sequences, FiniteSets, TLC

VARIABLES
    cfgInput,   \* the raw configuration handed to run_migrations / stored by the host
    first,      \* result of run_migrations(cfgInput)
    second,     \* result of run_migrations(first.config)
    loaded,     \* result of ConfigManager._ensure_config on the stored configuration
    mphase,     \* which calls of the migration scenario have happened
    rawRule,    \* one raw entry of the stored rules list
    ruleRes,    \* result of Rule.from_raw(rawRule)
    configTag,  \* the stored configuration's leech_tag value
    host,       \* the collection object: which lookup methods it has
    configRules, \* ConfigManager.rules on the stored rules list: the Rules, or the exception
    cards,      \* the collection's cards, by card id
    notes,      \* the collection's notes, by note id
    last,       \* the last call of apply_rules_to_card: arguments, starting store, result
    calls,      \* number of calls made so far
    batch,      \* the call of process_cards: arguments, starting store, steps, result
    strip,      \* a note and the calls of _strip_leech_tag made on it
    table,      \* the rules dialog's table: the rule shown in each row, top row first
    selection,  \* the rows selected in the table (row 0 is the top row)
    move,       \* the last call of _move_selected_rows: direction, table and selection before
    edits       \* number of changes the user has made inside rows of the table

migVars == <<cfgInput, first, second, loaded, mphase>>
ruleVars == <<rawRule, ruleRes>>
confVars == <<configTag, host>>
engVars == <<configRules, cards, notes, last, calls>>
batchVars == <<batch>>
stripVars == <<strip>>
moveVars == <<table, selection, move, edits>>
vars == <<migVars, ruleVars, confVars, engVars, batchVars, stripVars, moveVars>>

----------------------------------------------------------------------------
(* Bounds of the model *)

\* largest integer schema_version a stored configuration carries
MaxStoredVersion == 5

\* largest integer delay_days a raw rule entry carries
MaxRawDelay == 3

\* longest stored rules list
MaxRules == 2

\* number of calls of apply_rules_to_card in one behaviour
MaxCalls == 1

\* longest list of card ids handed to process_cards
MaxIds == 2

\* longest tag list of a note handed to _strip_leech_tag
MaxTags == 4

\* number of calls of _strip_leech_tag on one note
MaxStrips == 2

\* most rows in the table of the rules dialog
MaxRows == 3

\* most changes made inside rows of the table in one behaviour
MaxEdits == 1

----------------------------------------------------------------------------
(* Python values: t is the Python type, n the numeric payload (an int, a   *)
(* bool as 0/1, a finite float in tenths, the length of a list or dict),   *)
(* s the characters of a str (or the name of a non-finite float).          *)

PyNone == [t |-> "none", n |-> 0, s |-> <<>>]
PyIntV(i) == [t |-> "int", n |-> i, s |-> <<>>]
PyBool(b) == [t |-> "bool", n |-> IF b THEN 1 ELSE 0, s |-> <<>>]
PyTrue == PyBool(TRUE)
PyFalse == PyBool(FALSE)
PyFloatTenths(x) == [t |-> "float", n |-> x, s |-> <<>>]
PyInf == [t |-> "float", n |-> 0, s |-> <<"i", "n", "f">>]
PyNaN == [t |-> "float", n |-> 0, s |-> <<"n", "a", "n">>]
PyStrV(chars) == [t |-> "str", n |-> 0, s |-> chars]
PyList(len) == [t |-> "list", n |-> len, s |-> <<>>]

\* Python truthiness, as used by `x or 0` and `if not x`
Truthy(v) ==
    CASE v.t = "none" -> FALSE
      [] v.t = "str" -> v.s # <<>>
      [] v.t = "float" -> (v.s # <<>>) \/ (v.n # 0)
      [] OTHER -> v.n # 0

Digits == <<"0", "1", "2", "3", "4", "5", "6", "7", "8", "9">>
IsDigit(c) == \E i \in 1..10 : Digits[i] = c
DigitVal(c) == (CHOOSE i \in 1..10 : Digits[i] = c) - 1

RECURSIVE DigitsValue(_, _)
DigitsValue(chars, acc) ==
    IF chars = <<>> THEN acc
    ELSE DigitsValue(Tail(chars), acc * 10 + DigitVal(Head(chars)))

\* The characters of a string are those of Latin-1, in code-point order:
\* the control characters (1 to 31), the printable ASCII characters from the
\* blank (32) to the underscore (95) and from a (97) to the tilde (126), and
\* the characters from DEL (127) to y with diaeresis (255). The grave accent
\* (96) and NUL (0) have no spelling in a string here.
\* The values the scenarios start from hold characters below 128 only.
Controls ==
    <<"", "", "", "", "", "", "", "", "\t", "\n", "", "\f", "\r", "", "", "",
      "", "", "", "", "", "", "", "", "", "", "", "", "", "", "">>
AsciiLow ==
    <<" ", "!", "\"", "#", "$", "%", "&", "'", "(", ")", "*", "+", ",", "-", ".", "/",
      "0", "1", "2", "3", "4", "5", "6", "7", "8", "9", ":", ";", "<", "=", ">", "?",
      "@", "A", "B", "C", "D", "E", "F", "G", "H", "I", "J", "K", "L", "M", "N", "O",
      "P", "Q", "R", "S", "T", "U", "V", "W", "X", "Y", "Z", "[", "\\", "]", "^", "_">>
AsciiHigh ==
    <<"a", "b", "c", "d", "e", "f", "g", "h", "i", "j", "k", "l", "m", "n", "o",
      "p", "q", "r", "s", "t", "u", "v", "w", "x", "y", "z", "{", "|", "}", "~">>
Latin1High ==
    <<"", "", "", "", "", "", "", "", "", "", "", "", "", "", "", "",
      "", "", "", "", "", "", "", "", "", "", "", "", "", "", "", "",
      "", " ", "¡", "¢", "£", "¤", "¥", "¦", "§", "¨", "©", "ª", "«", "¬", "­", "®",
      "¯", "°", "±", "²", "³", "´", "µ", "¶", "·", "¸", "¹", "º", "»", "¼", "½", "¾",
      "¿", "À", "Á", "Â", "Ã", "Ä", "Å", "Æ", "Ç", "È", "É", "Ê", "Ë", "Ì", "Í", "Î",
      "Ï", "Ð", "Ñ", "Ò", "Ó", "Ô", "Õ", "Ö", "×", "Ø", "Ù", "Ú", "Û", "Ü", "Ý", "Þ",
      "ß", "à", "á", "â", "ã", "ä", "å", "æ", "ç", "è", "é", "ê", "ë", "ì", "í", "î",
      "ï", "ð", "ñ", "ò", "ó", "ô", "õ", "ö", "÷", "ø", "ù", "ú", "û", "ü", "ý", "þ",
      "ÿ">>

\* chr(n), for 1 <= n <= 255 and n # 96
Chr(n) ==
    IF n <= 31 THEN Controls[n]
    ELSE IF n <= 95 THEN AsciiLow[n - 31]
    ELSE IF n <= 126 THEN AsciiHigh[n - 96]
    ELSE Latin1High[n - 126]

\* the code of each of these characters
CodeOf ==
    [c \in {Chr(n) : n \in (1..255) \ {96}} |->
        CHOOSE n \in (1..255) \ {96} : Chr(n) = c]

\* ord(c) for these characters (0 for any other)
Ord(c) == IF c \in DOMAIN CodeOf THEN CodeOf[c] ELSE 0

\* the characters with str.isspace(), which str.strip() and int() remove:
\* tab, newline, vertical tab, form feed, carriage return, the four
\* separators FS, GS, RS and US, the blank, NEL and the no-break space
WhiteSpace == {Chr(n) : n \in (9..13) \cup (28..32) \cup {133, 160}}

\* the white space int() removes around the digits: of the ASCII characters
\* those of C's isspace() only, so not the separators FS, GS, RS and US
IntWhiteSpace == WhiteSpace \ {Chr(n) : n \in 28..31}

RECURSIVE StripLeft(_)
StripLeft(chars) ==
    IF chars # <<>> /\ Head(chars) \in WhiteSpace THEN StripLeft(Tail(chars)) ELSE chars

RECURSIVE StripRight(_)
StripRight(chars) ==
    IF chars # <<>> /\ chars[Len(chars)] \in WhiteSpace
    THEN StripRight(SubSeq(chars, 1, Len(chars) - 1))
    ELSE chars

\* str.strip()
Strip(chars) == StripRight(StripLeft(chars))

IntOk(i) == [exc |-> "none", n |-> i]
IntRaise(e) == [exc |-> e, n |-> 0]

\* the digits of an int literal: decimal digits, with single underscores
\* allowed between two digits
ValidDigits(digits) ==
    /\ digits # <<>>
    /\ \A i \in 1..Len(digits) :
           \/ IsDigit(digits[i])
           \/ /\ digits[i] = "_"
              /\ 1 < i /\ i < Len(digits)
              /\ IsDigit(digits[i - 1]) /\ IsDigit(digits[i + 1])

\* int(str): surrounding white space and one sign are accepted, then decimal
\* digits (ASCII), which single underscores may group
ParseInt(chars) ==
    LET kept == {i \in 1..Len(chars) : chars[i] \notin IntWhiteSpace}
        body == IF kept = {} THEN <<>>
                ELSE SubSeq(chars, CHOOSE i \in kept : \A j \in kept : i <= j,
                                   CHOOSE i \in kept : \A j \in kept : j <= i)
        signed == body # <<>> /\ Head(body) \in {"-", "+"}
        digits == IF signed THEN Tail(body) ELSE body
        mag == DigitsValue(SelectSeq(digits, IsDigit), 0)
    IN  IF ~ValidDigits(digits) THEN IntRaise("ValueError")
        ELSE IntOk(IF signed /\ Head(body) = "-" THEN 0 - mag ELSE mag)

\* truncation toward zero of a float given in tenths
TruncTenths(x) == IF x >= 0 THEN x \div 10 ELSE 0 - ((0 - x) \div 10)

\* the builtin int(v): its value, or the exception it raises
PyInt(v) ==
    CASE v.t \in {"int", "bool"} -> IntOk(v.n)
      [] v.t = "float" ->
            IF v.s = PyInf.s THEN IntRaise("OverflowError")
            ELSE IF v.s = PyNaN.s THEN IntRaise("ValueError")
            ELSE IntOk(TruncTenths(v.n))
      [] v.t = "str" -> ParseInt(v.s)
      [] OTHER -> IntRaise("TypeError")

----------------------------------------------------------------------------
(* Dictionaries are functions from the keys present to Python values. *)

EmptyDict == [k \in {} |-> PyNone]

\* dict.get(key) with the default None
DictGet(d, key) == IF key \in DOMAIN d THEN d[key] ELSE PyNone

\* dict.get(key, default)
DictGetOr(d, key, default) == IF key \in DOMAIN d THEN d[key] ELSE default

\* dict.setdefault(key, value)
SetDefault(d, key, value) == IF key \in DOMAIN d THEN d ELSE d @@ (key :> value)

\* d[key] = value
DictSet(d, key, value) == [k \in DOMAIN d \cup {key} |-> IF k = key THEN value ELSE d[k]]

S_leech == <<"l", "e", "e", "c", "h">>

T_x == <<"x">>

----------------------------------------------------------------------------
(* migrations.py *)

\* v1 with the line `config["rules"] = rules` left out
v1_KeepsRulesAsFound(config) ==
    LET c1 == SetDefault(config, "leech_tag", PyStrV(S_leech))
        c3 == SetDefault(c1, "auto_run_enabled", PyTrue)
    IN  DictSet(c3, "schema_version", PyIntV(1))

v1(config) ==
    LET c1 == SetDefault(config, "leech_tag", PyStrV(S_leech))
        rules == DictGet(c1, "rules")
        rules2 == IF rules.t # "list" THEN PyList(0) ELSE rules
        c2 == DictSet(c1, "rules", rules2)
        c3 == SetDefault(c2, "auto_run_enabled", PyTrue)
    IN  DictSet(c3, "schema_version", PyIntV(1))

\* v2 assigning the flag instead of using setdefault
v2_OverwritesAutoRun(config) ==
    DictSet(DictSet(config, "auto_run_enabled", PyTrue), "schema_version", PyIntV(2))

v2(config) ==
    DictSet(SetDefault(config, "auto_run_enabled", PyTrue), "schema_version", PyIntV(2))

\* v3 stamping the version of the step before it
v3_StampsOldVersion(config) ==
    DictSet(SetDefault(config, "show_auto_notifications", PyTrue), "schema_version", PyIntV(2))

v3(config) ==
    DictSet(SetDefault(config, "show_auto_notifications", PyTrue), "schema_version", PyIntV(3))

CURRENT_SCHEMA_VERSION == 3

\* MIGRATIONS[target_version] applied to a configuration
ApplyMigration(target, config) ==
    CASE target = 1 -> v1(config)
      [] target = 2 -> v2(config)
      [] target = 3 -> v3(config)

\* the loop with `current_version <= target_version` as its test
RECURSIVE MigrationLoop_RerunsCurrent(_, _, _, _)
MigrationLoop_RerunsCurrent(target, config, current, updated) ==
    IF target > CURRENT_SCHEMA_VERSION
    THEN [raised |-> "none", config |-> config, updated |-> updated]
    ELSE IF current <= target
         THEN MigrationLoop_RerunsCurrent(target + 1, ApplyMigration(target, config), target, TRUE)
         ELSE MigrationLoop_RerunsCurrent(target + 1, config, current, updated)

\* the loop of run_migrations from target_version on
RECURSIVE MigrationLoop(_, _, _, _)
MigrationLoop(target, config, current, updated) ==
    IF target > CURRENT_SCHEMA_VERSION
    THEN [raised |-> "none", config |-> config, updated |-> updated]
    ELSE IF current < target
         THEN MigrationLoop(target + 1, ApplyMigration(target, config), target, TRUE)
         ELSE MigrationLoop(target + 1, config, current, updated)

\* the version run_migrations reads: int(config.get("schema_version") or 0),
\* with TypeError and ValueError turned into 0
ReadVersion(config) ==
    LET got == DictGet(config, "schema_version")
        version == IF Truthy(got) THEN got ELSE PyIntV(0)
        conv == PyInt(version)
    IN  IF conv.exc \in {"TypeError", "ValueError"} THEN IntOk(0) ELSE conv

run_migrations(config) ==
    LET cur == ReadVersion(config)
    IN  IF cur.exc # "none"
        THEN [raised |-> cur.exc, config |-> config, updated |-> FALSE]
        ELSE MigrationLoop(1, config, cur.n, FALSE)

\* ConfigManager._ensure_config: what it returns and whether it wrote the
\* configuration back (a stored None is read as the empty dictionary)
ensure_config(existing) ==
    LET is_new == DOMAIN existing = {}
        res == run_migrations(existing)
    IN  [raised |-> res.raised, config |-> res.config,
         wrote |-> res.raised = "none" /\ (is_new \/ res.updated)]

----------------------------------------------------------------------------
(* The configurations the migration scenario starts from *)

VersionValues ==
    {PyIntV(i) : i \in -1..MaxStoredVersion}
    \cup {PyNone, PyTrue, PyFalse, PyList(0), PyList(1),
          PyStrV(<<>>), PyStrV(<<"2">>), PyStrV(<<"3">>), PyStrV(<<"7">>),
          PyStrV(<<" ", "1", " ">>), PyStrV(<<"1", "_", "0">>), PyStrV(<<Chr(11), "2", "\f">>), PyStrV(<<"2", Chr(31)>>),
          PyStrV(<<"a", "b", "c">>), PyStrV(<<"2", ".", "5">>),
          PyFloatTenths(25), PyFloatTenths(5), PyFloatTenths(-15), PyInf, PyNaN}

KeyValues(key) ==
    CASE key = "schema_version" -> VersionValues
      [] key = "leech_tag" -> {PyStrV(S_leech), PyStrV(<<"h", "a", "r", "d">>)}
      [] key = "rules" -> {PyList(0), PyList(2), PyNone, PyStrV(<<"x">>)}
      [] key = "auto_run_enabled" -> {PyTrue, PyFalse}
      [] key = "show_auto_notifications" -> {PyTrue, PyFalse}
      [] key = "extra" -> {PyIntV(1)}

ConfigKeys ==
    {"schema_version", "leech_tag", "rules", "auto_run_enabled",
     "show_auto_notifications", "extra"}

\* marks a key the raw configuration does not have
Missing == [t |-> "missing", n |-> 0, s |-> <<>>]

KeyOptions(key) == KeyValues(key) \cup {Missing}

\* the dictionary holding the chosen value of every key that is not Missing
MkDict(choice) ==
    [k \in {x \in DOMAIN choice : choice[x] # Missing} |-> choice[k]]

NotRun == [ran |-> FALSE, raised |-> "none", config |-> EmptyDict, updated |-> FALSE]
Ran(res) == [ran |-> TRUE, raised |-> res.raised, config |-> res.config, updated |-> res.updated]

\* no ConfigManager yet; saved holds the entries save_rules stored last
NotLoaded ==
    [ran |-> FALSE, raised |-> "none", config |-> EmptyDict, wrote |-> FALSE, saved |-> <<>>]

MigStart ==
    /\ \E sv \in KeyOptions("schema_version"), lt \in KeyOptions("leech_tag"),
          ru \in KeyOptions("rules"), au \in KeyOptions("auto_run_enabled"),
          sn \in KeyOptions("show_auto_notifications"), ex \in KeyOptions("extra") :
            cfgInput = MkDict([schema_version |-> sv, leech_tag |-> lt, rules |-> ru,
                               auto_run_enabled |-> au, show_auto_notifications |-> sn,
                               extra |-> ex])
    /\ first = NotRun
    /\ second = NotRun
    /\ loaded = NotLoaded
    /\ mphase = "start"

\* run_migrations on the raw configuration
RunMigrations ==
    /\ mphase = "start"
    /\ first' = Ran(run_migrations(cfgInput))
    /\ mphase' = "once"
    /\ UNCHANGED <<cfgInput, second, loaded>>
    /\ UNCHANGED <<ruleVars, confVars, engVars, batchVars, stripVars, moveVars>>

\* run_migrations on the configuration the first run returned
RunMigrationsAgain ==
    /\ mphase = "once"
    /\ first.raised = "none"
    /\ second' = Ran(run_migrations(first.config))
    /\ mphase' = "twice"
    /\ UNCHANGED <<cfgInput, first, loaded>>
    /\ UNCHANGED <<ruleVars, confVars, engVars, batchVars, stripVars, moveVars>>

\* ConfigManager() on a host that stores the raw configuration
EnsureConfig ==
    /\ mphase = "start"
    /\ LET res == ensure_config(cfgInput)
       IN  loaded' = [ran |-> TRUE, raised |-> res.raised, config |-> res.config,
                      wrote |-> res.wrote, saved |-> <<>>]
    /\ mphase' = "loaded"
    /\ UNCHANGED <<cfgInput, first, second>>
    /\ UNCHANGED <<ruleVars, confVars, engVars, batchVars, stripVars, moveVars>>



----------------------------------------------------------------------------
(* main.py: the action vocabulary *)

S_reset == <<"r", "e", "s", "e", "t">>
S_delay == <<"d", "e", "l", "a", "y">>
S_delete == <<"d", "e", "l", "e", "t", "e">>
S_reset_lapses == <<"r", "e", "s", "e", "t", "_", "l", "a", "p", "s", "e", "s">>
S_remove_tag == <<"r", "e", "m", "o", "v", "e", "_", "t", "a", "g">>
S_star == <<"*">>

\* ACTION_OPTIONS: (label, value) pairs
ACTION_OPTIONS ==
    << <<(<<"R", "e", "s", "e", "t", " ", "p", "r", "o", "g", "r", "e", "s", "s">>), S_reset>>,
       <<(<<"D", "e", "l", "a", "y", " ", "c", "a", "r", "d">>), S_delay>>,
       <<(<<"D", "e", "l", "e", "t", "e", " ", "c", "a", "r", "d">>), S_delete>>,
       <<(<<"R", "e", "s", "e", "t", " ", "l", "a", "p", "s", "e", " ", "c", "o", "u", "n", "t">>),
         S_reset_lapses>>,
       <<(<<"R", "e", "m", "o", "v", "e", " ", "l", "e", "e", "c", "h", " ", "t", "a", "g">>),
         S_remove_tag>> >>

\* the cased characters str.lower() maps: the ASCII capitals and the
\* capitals of Latin-1 (other scripts are not tabulated)
UpperCase == <<"A", "B", "C", "D", "E", "F", "G", "H", "I", "J", "K", "L", "M",
               "N", "O", "P", "Q", "R", "S", "T", "U", "V", "W", "X", "Y", "Z",
               "À", "Á", "Â", "Ã", "Ä", "Å", "Æ", "Ç", "È", "É", "Ê", "Ë", "Ì",
               "Í", "Î", "Ï", "Ð", "Ñ", "Ò", "Ó", "Ô", "Õ", "Ö", "Ø", "Ù", "Ú",
               "Û", "Ü", "Ý", "Þ">>
LowerCase == <<"a", "b", "c", "d", "e", "f", "g", "h", "i", "j", "k", "l", "m",
               "n", "o", "p", "q", "r", "s", "t", "u", "v", "w", "x", "y", "z",
               "à", "á", "â", "ã", "ä", "å", "æ", "ç", "è", "é", "ê", "ë", "ì",
               "í", "î", "ï", "ð", "ñ", "ò", "ó", "ô", "õ", "ö", "ø", "ù", "ú",
               "û", "ü", "ý", "þ">>

LowerChar(c) ==
    IF \E i \in 1..Len(UpperCase) : UpperCase[i] = c
    THEN LowerCase[CHOOSE i \in 1..Len(UpperCase) : UpperCase[i] = c]
    ELSE c

\* str.lower()
Lower(chars) == [i \in 1..Len(chars) |-> LowerChar(chars[i])]

\* ACTION_LABEL_MAP.get(key, default): the keys are the lower-cased labels
ACTION_LABEL_MAP_get(key, default) ==
    IF \E i \in 1..Len(ACTION_OPTIONS) : Lower(ACTION_OPTIONS[i][1]) = key
    THEN ACTION_OPTIONS[CHOOSE i \in 1..Len(ACTION_OPTIONS) : Lower(ACTION_OPTIONS[i][1]) = key][2]
    ELSE default

ALLOWED_ACTIONS == {ACTION_OPTIONS[i][2] : i \in 1..Len(ACTION_OPTIONS)}

\* decimal digits of a natural number
RECURSIVE NatChars(_)
NatChars(i) ==
    IF i < 10 THEN <<Digits[i + 1]>> ELSE NatChars(i \div 10) \o <<Digits[(i % 10) + 1]>>

\* the builtin str(v)
PyStr(v) ==
    CASE v.t = "str" -> v.s
      [] v.t = "none" -> <<"N", "o", "n", "e">>
      [] v.t = "bool" -> IF v.n = 1 THEN <<"T", "r", "u", "e">> ELSE <<"F", "a", "l", "s", "e">>
      [] v.t = "int" -> IF v.n < 0 THEN <<"-">> \o NatChars(0 - v.n) ELSE NatChars(v.n)
      [] v.t = "list" /\ v.n = 0 -> <<"[", "]">>
      [] v.t = "dict" /\ v.n = 0 -> <<"{", "}">>

----------------------------------------------------------------------------
(* main.py: Rule.from_raw *)

\* lines 93-96: the action of a raw entry, normalized
NormalizeAction(data) ==
    LET raw_action == Strip(PyStr(DictGetOr(data, "action", PyStrV(S_reset))))
        normalized_action == ACTION_LABEL_MAP_get(Lower(raw_action), Lower(raw_action))
    IN  IF normalized_action \notin ALLOWED_ACTIONS THEN S_reset ELSE normalized_action

\* `raw_delay not in (None, "")`
NotNoneOrEmpty(v) == ~(v.t = "none" \/ (v.t = "str" /\ v.s = <<>>))

\* lines 99-104: delay_days from the converted delay (None, or an int) and the action
NormalizeDelay(normalized_action, delay) ==
    IF normalized_action # S_delay THEN PyNone
    ELSE IF delay # PyNone THEN PyIntV(IF delay.n > 1 THEN delay.n ELSE 1)
    ELSE PyIntV(7)

Rule(deck, note_type, action, delay_days) ==
    [deck |-> deck, note_type |-> note_type, action |-> action, delay_days |-> delay_days]

NoRule == Rule(PyNone, PyNone, <<>>, PyNone)

\* Rule.from_raw(data): the Rule it returns, or the exception it raises
from_raw(data) ==
    LET deck == DictGetOr(data, "deck", PyStrV(S_star))
        note_type == DictGetOr(data, "note_type", PyStrV(S_star))
        normalized_action == NormalizeAction(data)
        raw_delay == DictGet(data, "delay_days")
        conv == IF NotNoneOrEmpty(raw_delay) THEN PyInt(raw_delay) ELSE IntOk(0)
        delay == IF NotNoneOrEmpty(raw_delay) THEN PyIntV(conv.n) ELSE PyNone
    IN  IF conv.exc # "none"
        THEN [raised |-> conv.exc, rule |-> NoRule]
        ELSE [raised |-> "none",
              rule |-> Rule(deck, note_type, normalized_action,
                            NormalizeDelay(normalized_action, delay))]

----------------------------------------------------------------------------
(* The raw rule entries the normalization scenario starts from *)

RawDecks == {Missing, PyStrV(S_star), PyStrV(<<"[", "!", "B", "]", "*">>), PyIntV(5), PyNone}
RawNoteTypes == {Missing, PyStrV(S_star), PyStrV(<<"B">>)}

RawActions ==
    {Missing, PyNone, PyIntV(5), PyStrV(<<>>),
     PyStrV(S_reset), PyStrV(S_delay), PyStrV(S_delete), PyStrV(S_reset_lapses),
     PyStrV(S_remove_tag),
     PyStrV(<<"D", "e", "l", "a", "y", " ", "c", "a", "r", "d">>),
     PyStrV(<<" ", "D", "E", "L", "E", "T", "E", " ">>),
     PyStrV(<<"\t", "d", "e", "l", "e", "t", "e", Chr(28)>>),
     PyStrV(<<"D", "e", "l", "a", "y">>),
     PyStrV(<<"e", "x", "p", "l", "o", "d", "e">>)}

RawDelays ==
    {PyIntV(i) : i \in -2..MaxRawDelay}
    \cup {Missing, PyNone, PyStrV(<<>>), PyStrV(<<"3">>), PyStrV(<<" ", "-", "4">>),
          PyStrV(<<"1", "_", "0">>), PyStrV(<<Chr(11), "3", "\n">>), PyStrV(<<Chr(28), "3">>),
          PyStrV(<<"a", "b", "c">>), PyStrV(<<"2", ".", "5">>),
          PyTrue, PyFalse, PyFloatTenths(25), PyFloatTenths(5), PyInf, PyNaN,
          PyList(0), PyList(1)}

NotNormalized == [ran |-> FALSE, raised |-> "none", rule |-> NoRule]

RuleStart ==
    /\ \E dk \in RawDecks, nt \in RawNoteTypes, ac \in RawActions, dl \in RawDelays :
            rawRule = MkDict([deck |-> dk, note_type |-> nt, action |-> ac, delay_days |-> dl])
    /\ ruleRes = NotNormalized

\* Rule.from_raw on the raw entry
Normalize ==
    /\ ~ruleRes.ran
    /\ LET res == from_raw(rawRule)
       IN  ruleRes' = [ran |-> TRUE, raised |-> res.raised, rule |-> res.rule]
    /\ UNCHANGED rawRule
    /\ UNCHANGED <<migVars, confVars, engVars, batchVars, stripVars, moveVars>>

RuleNext == Normalize


----------------------------------------------------------------------------
(* main.py: LeechActionManager *)

\* ConfigManager.rules: Rule.from_raw over the stored list; the exception of
\* the first entry from_raw rejects leaves the comprehension
config_rules(raw_rules) ==
    LET made == [i \in 1..Len(raw_rules) |-> from_raw(raw_rules[i])]
        rejected == {i \in 1..Len(raw_rules) : made[i].raised # "none"}
    IN  IF rejected = {}
        THEN [raised |-> "none", rules |-> [i \in 1..Len(raw_rules) |-> made[i].rule]]
        ELSE [raised |-> made[CHOOSE i \in rejected : \A j \in rejected : i <= j].raised,
              rules |-> <<>>]

\* Rule.to_dict
to_dict(rule) ==
    [deck |-> rule.deck, note_type |-> rule.note_type, action |-> PyStrV(rule.action),
     delay_days |-> rule.delay_days]

\* ConfigManager.save_rules on the manager's configuration: the configuration
\* it leaves and writes. The rules value is kept as a list of that length;
\* its entries are `saved`
save_rules(config, rules, auto_run_enabled, show_auto_notifications) ==
    LET c1 == DictSet(config, "rules", PyList(Len(rules)))
        c2 == DictSet(c1, "auto_run_enabled", PyBool(Truthy(auto_run_enabled)))
        c3 == DictSet(c2, "show_auto_notifications", PyBool(Truthy(show_auto_notifications)))
    IN  [config |-> DictSet(c3, "schema_version", PyIntV(CURRENT_SCHEMA_VERSION)),
         saved |-> [i \in 1..Len(rules) |-> to_dict(rules[i])]]

\* the rule lists handed to save_rules
SavedRuleLists ==
    {<<>>,
     <<Rule(PyStrV(S_star), PyStrV(S_star), S_reset, PyNone)>>,
     <<Rule(PyStrV(<<"A">>), PyStrV(<<"B">>), S_delay, PyIntV(3)),
       Rule(PyStrV(S_star), PyStrV(S_star), S_delete, PyNone)>>}

\* save_rules on the ConfigManager the load made
SaveRules(rules, auto_run_enabled, show_auto_notifications) ==
    /\ mphase = "loaded"
    /\ loaded.raised = "none"
    /\ \E res \in {save_rules(loaded.config, rules, auto_run_enabled,
                               show_auto_notifications)} :
            loaded' = [loaded EXCEPT !.config = res.config, !.saved = res.saved,
                                     !.wrote = TRUE]
    /\ mphase' = "saved"
    /\ UNCHANGED <<cfgInput, first, second>>
    /\ UNCHANGED <<ruleVars, confVars, engVars, batchVars, stripVars, moveVars>>

\* the leech_tag values the stored configuration holds in the scenarios
ConfiguredTags == {PyStrV(S_leech), PyStrV(T_x)}

\* The host. get_card is what its collection offers as get_card: it gives no
\* card for an id without one ("finds"), raises for such an id ("raises"), or
\* the collection has neither get_card nor getCard ("absent"). select_row is
\* what QTableWidget.selectRow does to the rows already selected: it replaces
\* them ("replace", no keyboard modifier held) or extends the selection
\* ("extend")
DefaultHost == [get_card |-> "finds", select_row |-> "replace"]

\* ConfigManager.leech_tag: str() of the stored value
leech_tag == PyStr(configTag)

\* col.sched.today
Today == 100

\* the first index from k on at which chars holds c, or 0
IndexFrom(chars, c, k) ==
    IF \E i \in k..Len(chars) : chars[i] = c
    THEN CHOOSE i \in k..Len(chars) : chars[i] = c /\ \A j \in k..(i - 1) : chars[j] # c
    ELSE 0

\* fnmatch.translate, `[`: the index of the `]` closing the class that
\* opens at pat[1], or 0 when the `[` stands for itself
ClassEnd(pat) ==
    LET j1 == IF Len(pat) >= 2 /\ pat[2] = "!" THEN 3 ELSE 2
        j2 == IF j1 <= Len(pat) /\ pat[j1] = "]" THEN j1 + 1 ELSE j1
    IN  IndexFrom(pat, "]", j2)

\* fnmatch.translate: the class body cut at the hyphens that make ranges; a
\* hyphen makes a range when it is not the first character of the body and
\* stands at least two places after the last range's end
RECURSIVE ClassChunks(_, _, _, _)
ClassChunks(stuff, start, k, chunks) ==
    LET h == IndexFrom(stuff, "-", k)
    IN  IF h = 0
        THEN IF start <= Len(stuff)
             THEN Append(chunks, SubSeq(stuff, start, Len(stuff)))
             ELSE [chunks EXCEPT ![Len(chunks)] = @ \o <<"-">>]
        ELSE ClassChunks(stuff, h + 1, h + 3, Append(chunks, SubSeq(stuff, start, h - 1)))

\* fnmatch.translate: ranges whose start lies after their end are removed,
\* from the last boundary back to the first
RECURSIVE DropEmptyRanges(_, _)
DropEmptyRanges(chunks, k) ==
    IF k < 2 THEN chunks
    ELSE LET left == chunks[k - 1]
             right == chunks[k]
         IN  IF Ord(left[Len(left)]) > Ord(right[1])
             THEN DropEmptyRanges(
                      [i \in 1..(Len(chunks) - 1) |->
                          IF i < k - 1 THEN chunks[i]
                          ELSE IF i = k - 1
                               THEN SubSeq(left, 1, Len(left) - 1) \o Tail(right)
                               ELSE chunks[i + 1]],
                      k - 1)
             ELSE DropEmptyRanges(chunks, k - 1)

\* whether the class with the given body (the characters between `[` and
\* `]`) takes the character c
InClass(c, stuff) ==
    LET hyphen == \E i \in 1..Len(stuff) : stuff[i] = "-"
        chunks == IF ~hyphen THEN <<stuff>>
                  ELSE LET cut == ClassChunks(stuff, 1, IF stuff[1] = "!" THEN 3 ELSE 2, <<>>)
                       IN  DropEmptyRanges(cut, Len(cut))
        negated == chunks[1] # <<>> /\ chunks[1][1] = "!"
        size == Len(chunks)
        Members(i) == IF i = 1 /\ negated THEN Tail(chunks[1]) ELSE chunks[i]
        listed == \E i \in 1..size : \E p \in 1..Len(Members(i)) : Members(i)[p] = c
        ranged == \E i \in 2..size :
                      /\ Ord(c) > 0
                      /\ Ord(chunks[i - 1][Len(chunks[i - 1])]) <= Ord(c)
                      /\ Ord(c) <= Ord(chunks[i][1])
    IN  IF size = 1 /\ chunks[1] = <<>> THEN FALSE
        ELSE IF size = 1 /\ chunks[1] = <<"!">> THEN TRUE
        ELSE negated # (listed \/ ranged)

\* fnmatch.fnmatch(name, pat) where names are compared as written (POSIX):
\* `*`, `?`, [seq] and [!seq]
RECURSIVE fnmatch(_, _)
fnmatch(name, pat) ==
    IF pat = <<>> THEN name = <<>>
    ELSE IF Head(pat) = "*"
         THEN \/ fnmatch(name, Tail(pat))
              \/ (name # <<>> /\ fnmatch(Tail(name), pat))
    ELSE IF Head(pat) = "[" /\ ClassEnd(pat) > 0
         THEN /\ name # <<>>
              /\ InClass(Head(name), SubSeq(pat, 2, ClassEnd(pat) - 1))
              /\ fnmatch(Tail(name), SubSeq(pat, ClassEnd(pat) + 1, Len(pat)))
    ELSE IF name = <<>> THEN FALSE
    ELSE IF Head(pat) = "?" THEN fnmatch(Tail(name), Tail(pat))
    ELSE Head(pat) = Head(name) /\ fnmatch(Tail(name), Tail(pat))


\* _rule_matches: fnmatch raises TypeError on a pattern that is no str; `and`
\* looks at the note type only when the deck matches
_rule_matches(rule, deck_name, model_name) ==
    IF rule.deck.t # "str" THEN [raised |-> "TypeError", match |-> FALSE]
    ELSE IF ~fnmatch(deck_name, rule.deck.s) THEN [raised |-> "none", match |-> FALSE]
    ELSE IF rule.note_type.t # "str" THEN [raised |-> "TypeError", match |-> FALSE]
    ELSE [raised |-> "none", match |-> fnmatch(model_name, rule.note_type.s)]

_empty_summary ==
    [delete |-> 0, reset |-> 0, delay |-> 0, reset_lapses |-> 0, remove_tag |-> 0, skipped |-> 0]

\* summary[key] += 1
Bump(summary, key) == [summary EXCEPT ![key] = @ + 1]

(* The state a call works on: card and note are the objects the call holds *)
(* in memory, cards and notes the collection, log the host-store calls.    *)

Logged(st, entry) == [st EXCEPT !.log = Append(@, entry)]

\* card.flush(): the collection takes the fields of the card object
card_flush(st, cid) ==
    Logged([st EXCEPT !.cards[cid] = [st.card EXCEPT !.live = st.cards[cid].live]],
           <<"card_flush", cid>>)

\* note.flush(): the collection takes the tags of the note object
note_flush(st, nid) ==
    Logged([st EXCEPT !.notes[nid] = st.note], <<"note_flush", nid>>)

\* the strip that drops only the first occurrence of the tag
_strip_leech_tag_FirstOnly(st, nid) ==
    LET tag == leech_tag
        tags == st.note.tags
    IN  IF ~(\E i \in 1..Len(tags) : tags[i] = tag) THEN st
        ELSE LET at == CHOOSE i \in 1..Len(tags) :
                          tags[i] = tag /\ \A j \in 1..(i - 1) : tags[j] # tag
             IN  note_flush([st EXCEPT !.note.tags =
                                 SubSeq(tags, 1, at - 1) \o SubSeq(tags, at + 1, Len(tags))], nid)

_strip_leech_tag(st, nid) ==
    LET tag == leech_tag
        tags == st.note.tags
    IN  IF ~(\E i \in 1..Len(tags) : tags[i] = tag) THEN st
        ELSE note_flush([st EXCEPT !.note.tags = SelectSeq(tags, LAMBDA t : t # tag)], nid)

\* col.rem_cards([card.id])
_delete_card(st, cid) ==
    Logged([st EXCEPT !.cards[cid].live = FALSE], <<"rem_cards", cid>>)

\* col.sched.reset_cards([card.id]): the host returns the stored card to the new state
_reset_card(st, cid) ==
    Logged([st EXCEPT !.cards[cid].queue = 0, !.cards[cid].type = 0,
                      !.cards[cid].ivl = 0, !.cards[cid].due = 0],
           <<"reset_cards", cid>>)

_delay_card(st, cid, delay_days) ==
    LET d == IF delay_days > 1 THEN delay_days ELSE 1
    IN  card_flush([st EXCEPT !.card.queue = 2, !.card.type = 2,
                              !.card.ivl = d, !.card.due = Today + d], cid)

_reset_lapses(st, cid) == card_flush([st EXCEPT !.card.lapses = 0], cid)

Counted(st, key) == [st EXCEPT !.summary = Bump(@, key)]

\* the delete tally kept inside `if not simulate`
_execute_rule_DeleteUncountedInPreview(rule, st, cid, simulate) ==
    LET nid == st.card.nid
    IN  CASE rule.action = S_delete ->
                IF ~simulate
                THEN Counted(_delete_card(_strip_leech_tag(st, nid), cid), "delete")
                ELSE st
          [] rule.action = S_reset ->
                Counted(IF ~simulate THEN _strip_leech_tag(_reset_card(st, cid), nid) ELSE st,
                        "reset")
          [] rule.action = S_delay ->
                LET delay_days == IF Truthy(rule.delay_days) THEN rule.delay_days.n ELSE 7
                IN  Counted(IF ~simulate
                            THEN _strip_leech_tag(_delay_card(st, cid, delay_days), nid)
                            ELSE st,
                            "delay")
          [] rule.action = S_reset_lapses ->
                Counted(IF ~simulate THEN _strip_leech_tag(_reset_lapses(st, cid), nid) ELSE st,
                        "reset_lapses")
          [] rule.action = S_remove_tag ->
                Counted(IF ~simulate THEN _strip_leech_tag(st, nid) ELSE st, "remove_tag")
          [] OTHER -> Counted(st, "skipped")

\* the card removed before the tag is stripped
_execute_rule_DeletesBeforeStrip(rule, st, cid, simulate) ==
    LET nid == st.card.nid
    IN  CASE rule.action = S_delete ->
                Counted(IF ~simulate THEN _strip_leech_tag(_delete_card(st, cid), nid) ELSE st,
                        "delete")
          [] rule.action = S_reset ->
                Counted(IF ~simulate THEN _strip_leech_tag(_reset_card(st, cid), nid) ELSE st,
                        "reset")
          [] rule.action = S_delay ->
                LET delay_days == IF Truthy(rule.delay_days) THEN rule.delay_days.n ELSE 7
                IN  Counted(IF ~simulate
                            THEN _strip_leech_tag(_delay_card(st, cid, delay_days), nid)
                            ELSE st,
                            "delay")
          [] rule.action = S_reset_lapses ->
                Counted(IF ~simulate THEN _strip_leech_tag(_reset_lapses(st, cid), nid) ELSE st,
                        "reset_lapses")
          [] rule.action = S_remove_tag ->
                Counted(IF ~simulate THEN _strip_leech_tag(st, nid) ELSE st, "remove_tag")
          [] OTHER -> Counted(st, "skipped")

_execute_rule(rule, st, cid, simulate) ==
    LET nid == st.card.nid
    IN  CASE rule.action = S_delete ->
                Counted(IF ~simulate THEN _delete_card(_strip_leech_tag(st, nid), cid) ELSE st,
                        "delete")
          [] rule.action = S_reset ->
                Counted(IF ~simulate THEN _strip_leech_tag(_reset_card(st, cid), nid) ELSE st,
                        "reset")
          [] rule.action = S_delay ->
                LET delay_days == IF Truthy(rule.delay_days) THEN rule.delay_days.n ELSE 7
                IN  Counted(IF ~simulate
                            THEN _strip_leech_tag(_delay_card(st, cid, delay_days), nid)
                            ELSE st,
                            "delay")
          [] rule.action = S_reset_lapses ->
                Counted(IF ~simulate THEN _strip_leech_tag(_reset_lapses(st, cid), nid) ELSE st,
                        "reset_lapses")
          [] rule.action = S_remove_tag ->
                Counted(IF ~simulate THEN _strip_leech_tag(st, nid) ELSE st, "remove_tag")
          [] OTHER -> Counted(st, "skipped")

\* the loop leaving after the first rule that fires, whatever its action
RECURSIVE RuleLoop_StopsAtFirstMatch(_, _, _, _, _, _, _, _, _)
RuleLoop_StopsAtFirstMatch(rules, i, st, matched, evaluated, fired, cid, names, simulate) ==
    IF i > Len(rules)
    THEN [st |-> IF ~matched THEN Counted(st, "skipped") ELSE st,
          evaluated |-> evaluated, fired |-> fired, raised |-> "none"]
    ELSE LET test == _rule_matches(rules[i], names.deck, names.model)
         IN  IF test.raised # "none"
             THEN [st |-> st, evaluated |-> Append(evaluated, i), fired |-> fired,
                   raised |-> test.raised]
             ELSE IF ~test.match
             THEN RuleLoop_StopsAtFirstMatch(rules, i + 1, st, matched, Append(evaluated, i), fired,
                       cid, names, simulate)
             ELSE LET st2 == _execute_rule(rules[i], st, cid, simulate)
                  IN  IF TRUE
                      THEN [st |-> st2, evaluated |-> Append(evaluated, i),
                            fired |-> Append(fired, i), raised |-> "none"]
                      ELSE RuleLoop_StopsAtFirstMatch(rules, i + 1, st2, TRUE, Append(evaluated, i),
                                Append(fired, i), cid, names, simulate)

\* the loop forgetting `matched = True`
RECURSIVE RuleLoop_MatchNotRecorded(_, _, _, _, _, _, _, _, _)
RuleLoop_MatchNotRecorded(rules, i, st, matched, evaluated, fired, cid, names, simulate) ==
    IF i > Len(rules)
    THEN [st |-> IF ~matched THEN Counted(st, "skipped") ELSE st,
          evaluated |-> evaluated, fired |-> fired, raised |-> "none"]
    ELSE LET test == _rule_matches(rules[i], names.deck, names.model)
         IN  IF test.raised # "none"
             THEN [st |-> st, evaluated |-> Append(evaluated, i), fired |-> fired,
                   raised |-> test.raised]
             ELSE IF ~test.match
             THEN RuleLoop_MatchNotRecorded(rules, i + 1, st, matched, Append(evaluated, i), fired,
                       cid, names, simulate)
             ELSE LET st2 == _execute_rule(rules[i], st, cid, simulate)
                  IN  IF rules[i].action = S_delete
                      THEN [st |-> st2, evaluated |-> Append(evaluated, i),
                            fired |-> Append(fired, i), raised |-> "none"]
                      ELSE RuleLoop_MatchNotRecorded(rules, i + 1, st2, matched, Append(evaluated, i),
                                Append(fired, i), cid, names, simulate)

\* the loop ending at the first rule that does not match
RECURSIVE RuleLoop_StopsAtFirstMiss(_, _, _, _, _, _, _, _, _)
RuleLoop_StopsAtFirstMiss(rules, i, st, matched, evaluated, fired, cid, names, simulate) ==
    IF i > Len(rules)
    THEN [st |-> IF ~matched THEN Counted(st, "skipped") ELSE st,
          evaluated |-> evaluated, fired |-> fired, raised |-> "none"]
    ELSE LET test == _rule_matches(rules[i], names.deck, names.model)
         IN  IF test.raised # "none"
             THEN [st |-> st, evaluated |-> Append(evaluated, i), fired |-> fired,
                   raised |-> test.raised]
             ELSE IF ~test.match
             THEN [st |-> IF ~matched THEN Counted(st, "skipped") ELSE st,
                   evaluated |-> Append(evaluated, i), fired |-> fired, raised |-> "none"]
             ELSE LET st2 == _execute_rule(rules[i], st, cid, simulate)
                  IN  IF rules[i].action = S_delete
                      THEN [st |-> st2, evaluated |-> Append(evaluated, i),
                            fired |-> Append(fired, i), raised |-> "none"]
                      ELSE RuleLoop_StopsAtFirstMiss(rules, i + 1, st2, TRUE, Append(evaluated, i),
                                Append(fired, i), cid, names, simulate)

\* the loop of apply_rules_to_card from rule i on; evaluated and fired list
\* the rules tested with _rule_matches and the rules executed; an exception
\* of _rule_matches ends the loop and the call, and what earlier rules did stays
RECURSIVE RuleLoop(_, _, _, _, _, _, _, _, _)
RuleLoop(rules, i, st, matched, evaluated, fired, cid, names, simulate) ==
    IF i > Len(rules)
    THEN [st |-> IF ~matched THEN Counted(st, "skipped") ELSE st,
          evaluated |-> evaluated, fired |-> fired, raised |-> "none"]
    ELSE LET test == _rule_matches(rules[i], names.deck, names.model)
         IN  IF test.raised # "none"
             THEN [st |-> st, evaluated |-> Append(evaluated, i), fired |-> fired,
                   raised |-> test.raised]
             ELSE IF ~test.match
             THEN RuleLoop(rules, i + 1, st, matched, Append(evaluated, i), fired,
                       cid, names, simulate)
             ELSE LET st2 == _execute_rule(rules[i], st, cid, simulate)
                  IN  IF rules[i].action = S_delete
                      THEN [st |-> st2, evaluated |-> Append(evaluated, i),
                            fired |-> Append(fired, i), raised |-> "none"]
                      ELSE RuleLoop(rules, i + 1, st2, TRUE, Append(evaluated, i),
                                Append(fired, i), cid, names, simulate)

\* what one call returns (summary, when raised is "none") and leaves behind
CallResult(res) ==
    [raised |-> res.raised, summary |-> res.st.summary, cards |-> res.st.cards,
     notes |-> res.st.notes, log |-> res.st.log, evaluated |-> res.evaluated,
     fired |-> res.fired]

\* apply_rules_to_card with ConfigManager.rules as config_rules gives it: an
\* exception of the rules property leaves the call before the loop
apply_rules_to_card(rules, cardStore, noteStore, cid, simulate) ==
    LET card == cardStore[cid]
        note == noteStore[card.nid]
        st0 == [card |-> card, note |-> note, cards |-> cardStore, notes |-> noteStore,
                log |-> <<>>, summary |-> _empty_summary]
        names == [deck |-> card.deck, model |-> note.model]
    IN  IF rules.raised # "none"
        THEN [raised |-> rules.raised, summary |-> _empty_summary, cards |-> cardStore,
              notes |-> noteStore, log |-> <<>>, evaluated |-> <<>>, fired |-> <<>>]
        ELSE CHOOSE out \in {CallResult(r) :
                                r \in {RuleLoop(rules.rules, 1, st0, FALSE, <<>>, <<>>, cid,
                                                names, simulate)}} : TRUE

----------------------------------------------------------------------------
(* The collection and rule lists the engine scenario starts from *)

CardIds == {1, 2}
NoteIds == {1, 2}

D_A == <<"A">>
D_AB == <<"A", "B">>
D_B == <<"B">>
\* raw entries of the stored rules list
RuleEntries ==
    {MkDict([deck |-> PyStrV(D_A), note_type |-> Missing, action |-> PyStrV(S_delete),
             delay_days |-> Missing]),
     MkDict([deck |-> PyStrV(S_star), note_type |-> PyStrV(S_star), action |-> PyStrV(S_reset),
             delay_days |-> PyNone]),
     MkDict([deck |-> PyStrV(<<"[", "!", "B", "-", "~", "]", "*">>), note_type |-> PyStrV(D_B),
             action |-> PyStrV(S_delay), delay_days |-> PyIntV(0)]),
     MkDict([deck |-> Missing, note_type |-> Missing, action |-> PyStrV(S_reset_lapses),
             delay_days |-> PyIntV(3)]),
     MkDict([deck |-> PyStrV(<<"?">>), note_type |-> Missing, action |-> PyStrV(S_remove_tag),
             delay_days |-> Missing]),
     MkDict([deck |-> PyStrV(D_B), note_type |-> PyStrV(<<"?">>),
             action |-> PyStrV(<<"e", "x", "p", "l", "o", "d", "e">>), delay_days |-> Missing]),
     MkDict([deck |-> PyStrV(<<"A", "?">>), note_type |-> PyNone,
             action |-> PyStrV(<<"\t", "d", "e", "l", "e", "t", "e", Chr(28)>>),
             delay_days |-> PyStrV(<<"1", "_", "0">>)]),
     MkDict([deck |-> PyStrV(S_star), note_type |-> Missing, action |-> PyStrV(S_reset),
             delay_days |-> PyStrV(<<"a", "b", "c">>)]),
     MkDict([deck |-> PyStrV(S_star), note_type |-> PyStrV(<<"C">>),
             action |-> PyStrV(<<"D", "e", "l", "a", "y", " ", "c", "a", "r", "d">>),
             delay_days |-> PyIntV(2)])}

RuleLists == UNION {[1..n -> RuleEntries] : n \in 0..MaxRules}

\* the entries the batch scenario draws its rule lists from: a delete, a
\* reset, a delay, an entry whose note type is no string, a malformed delay
BatchRuleEntries ==
    {entry \in RuleEntries :
        DictGet(entry, "action") \in
            {PyStrV(S_delete), PyStrV(S_reset), PyStrV(S_delay),
             PyStrV(<<"\t", "d", "e", "l", "e", "t", "e", Chr(28)>>)}}

NewCard(deck, nid) ==
    [deck |-> deck, nid |-> nid, queue |-> 2, type |-> 2, ivl |-> 10, due |-> 90,
     lapses |-> 8, live |-> TRUE]

NoCall ==
    [ran |-> FALSE, cid |-> 0, simulate |-> FALSE, raised |-> "none",
     summary |-> _empty_summary, log |-> <<>>, evaluated |-> <<>>, fired |-> <<>>, preCards |-> <<>>, preNotes |-> <<>>]

EngInit ==
    /\ \E raw_rules \in RuleLists : configRules = config_rules(raw_rules)
    /\ \E d1 \in {D_A, D_AB}, n2 \in NoteIds :
            cards = [c \in CardIds |-> IF c = 1 THEN NewCard(d1, 1) ELSE NewCard(D_B, n2)]
    /\ \E t1 \in {<<S_leech>>, <<T_x, S_leech, S_leech>>} :
            notes = [n \in NoteIds |-> IF n = 1 THEN [tags |-> t1, model |-> D_B]
                                                ELSE [tags |-> <<S_leech, T_x>>, model |-> <<>>]]
    /\ last = NoCall
    /\ calls = 0
    /\ configTag \in ConfiguredTags
    /\ host = DefaultHost

\* apply_rules_to_card on a card of the collection, simulated or not
ApplyRulesToCard(cid, simulate) ==
    /\ calls < MaxCalls
    /\ cards[cid].live
    /\ \E res \in {apply_rules_to_card(configRules, cards, notes, cid, simulate)} :
           /\ cards' = res.cards
           /\ notes' = res.notes
           /\ last' = [ran |-> TRUE, cid |-> cid, simulate |-> simulate,
                       raised |-> res.raised, summary |-> res.summary, log |-> res.log,
                       evaluated |-> res.evaluated, fired |-> res.fired,
                       preCards |-> cards, preNotes |-> notes]
    /\ calls' = calls + 1
    /\ UNCHANGED configRules
    /\ UNCHANGED <<migVars, ruleVars, confVars, batchVars, stripVars, moveVars>>

----------------------------------------------------------------------------
(* main.py: LeechActionManager.process_cards *)

\* _get_card: no card when the collection has neither get_card nor getCard;
\* otherwise what the getter gives. For an id without a card the getter
\* gives no card, or raises, as the host's collection does
_get_card(getter, cardStore, cid) ==
    IF getter = "absent" THEN [raised |-> "none", found |-> FALSE, cid |-> cid]
    ELSE IF cid \in DOMAIN cardStore /\ cardStore[cid].live
    THEN [raised |-> "none", found |-> TRUE, cid |-> cid]
    ELSE IF getter = "raises" THEN [raised |-> "NotFoundError", found |-> FALSE, cid |-> cid]
    ELSE [raised |-> "none", found |-> FALSE, cid |-> cid]

\* total_summary[key] += value for every key of card_summary
AddSummary(total, card_summary) ==
    [k \in DOMAIN total |-> total[k] + card_summary[k]]

\* the lookup that counts nothing for an id without a card
ProcessOne_MissingUncounted(rules, getter, cardStore, noteStore, cid, simulate) ==
    LET card == _get_card(getter, cardStore, cid)
        asked == IF getter = "absent" THEN <<>> ELSE << <<"get_card", cid>> >>
    IN  IF card.raised # "none"
        THEN [raised |-> card.raised, found |-> FALSE, summary |-> _empty_summary,
              cards |-> cardStore, notes |-> noteStore, log |-> asked]
        ELSE IF ~card.found
        THEN [raised |-> "none", found |-> FALSE, summary |-> _empty_summary,
              cards |-> cardStore, notes |-> noteStore, log |-> asked]
        ELSE CHOOSE out \in
                {[raised |-> r.raised, found |-> TRUE, summary |-> r.summary,
                  cards |-> r.cards, notes |-> r.notes, log |-> asked \o r.log] :
                    r \in {apply_rules_to_card(rules, cardStore, noteStore, cid, simulate)}} : TRUE

\* one id of the loop of process_cards: the lookup, then the rules
ProcessOne(rules, getter, cardStore, noteStore, cid, simulate) ==
    LET card == _get_card(getter, cardStore, cid)
        asked == IF getter = "absent" THEN <<>> ELSE << <<"get_card", cid>> >>
    IN  IF card.raised # "none"
        THEN [raised |-> card.raised, found |-> FALSE, summary |-> _empty_summary,
              cards |-> cardStore, notes |-> noteStore, log |-> asked]
        ELSE IF ~card.found
        THEN [raised |-> "none", found |-> FALSE, summary |-> [_empty_summary EXCEPT !.skipped = 1],
              cards |-> cardStore, notes |-> noteStore, log |-> asked]
        ELSE CHOOSE out \in
                {[raised |-> r.raised, found |-> TRUE, summary |-> r.summary,
                  cards |-> r.cards, notes |-> r.notes, log |-> asked \o r.log] :
                    r \in {apply_rules_to_card(rules, cardStore, noteStore, cid, simulate)}} : TRUE

\* the loop of process_cards from the i-th id on; steps records, per id
\* visited, the store it found and what it contributed or raised. An
\* exception ends the loop: nothing is returned, and what was done so far stays
RECURSIVE ProcessLoop(_, _, _, _, _, _)
ProcessLoop(rules, getter, card_ids, i, acc, simulate) ==
    IF i > Len(card_ids) THEN acc
    ELSE CHOOSE out \in
            {LET step == [cid |-> card_ids[i], found |-> one.found, raised |-> one.raised,
                          summary |-> one.summary,
                          preCards |-> before.cards, preNotes |-> before.notes]
             IN  IF one.raised # "none"
                 THEN [before EXCEPT !.raised = one.raised, !.cards = one.cards,
                                     !.notes = one.notes, !.log = before.log \o one.log,
                                     !.steps = Append(before.steps, step)]
                 ELSE ProcessLoop(rules, getter, card_ids, i + 1,
                         [raised |-> "none", total |-> AddSummary(before.total, one.summary),
                          cards |-> one.cards, notes |-> one.notes,
                          log |-> before.log \o one.log,
                          steps |-> Append(before.steps, step)],
                         simulate) :
                before \in {acc},
                one \in {ProcessOne(rules, getter, acc.cards, acc.notes, card_ids[i], simulate)}} :
            TRUE

process_cards(rules, getter, cardStore, noteStore, card_ids, simulate) ==
    LET acc0 == [raised |-> "none", total |-> _empty_summary, cards |-> cardStore,
                 notes |-> noteStore, log |-> <<>>, steps |-> <<>>]
    IN  IF card_ids = <<>> THEN acc0
        ELSE ProcessLoop(rules, getter, card_ids, 1, acc0, simulate)

\* an id no card of the collection has
MissingId == 3

IdLists == UNION {[1..n -> CardIds \cup {MissingId}] : n \in 0..MaxIds}

NoBatch ==
    [ran |-> FALSE, ids |-> <<>>, simulate |-> FALSE, raised |-> "none",
     total |-> _empty_summary,
     log |-> <<>>, steps |-> <<>>, preCards |-> <<>>, preNotes |-> <<>>]

\* process_cards on a list of ids, simulated or not
ProcessCards(ids, simulate) ==
    /\ ~batch.ran
    /\ \E res \in {process_cards(configRules, host.get_card, cards, notes, ids, simulate)} :
           /\ cards' = res.cards
           /\ notes' = res.notes
           /\ batch' = [ran |-> TRUE, ids |-> ids, simulate |-> simulate,
                        raised |-> res.raised, total |-> res.total, log |-> res.log, steps |-> res.steps,
                        preCards |-> cards, preNotes |-> notes]
    /\ UNCHANGED <<configRules, last, calls>>
    /\ UNCHANGED <<migVars, ruleVars, confVars, stripVars, moveVars>>

----------------------------------------------------------------------------
(* main.py: LeechActionManager._strip_leech_tag called on one note *)

T_y == <<"y">>

TagLists == UNION {[1..n -> {S_leech, T_x, T_y}] : n \in 0..MaxTags}

\* the note object, the stored note, and nothing stripped yet
StripStart ==
    /\ \E tags \in TagLists :
            strip = [note |-> [tags |-> tags, model |-> D_B],
                     stored |-> [tags |-> tags, model |-> D_B],
                     calls |-> <<>>]
    /\ configTag \in ConfiguredTags
    /\ host = DefaultHost

\* one call of _strip_leech_tag(note); the call is recorded with the tags
\* before and after it and the flushes it made
StripLeechTag ==
    /\ strip # <<>>
    /\ Len(strip.calls) < MaxStrips
    /\ \E res \in {_strip_leech_tag([note |-> strip.note,
                                      notes |-> [n \in {1} |-> strip.stored],
                                      log |-> <<>>], 1)} :
            strip' = [note |-> res.note,
                      stored |-> res.notes[1],
                      calls |-> Append(strip.calls,
                                       [before |-> strip.note.tags,
                                        after |-> res.note.tags,
                                        storedBefore |-> strip.stored.tags,
                                        flushes |-> Len(res.log)])]
    /\ UNCHANGED <<migVars, ruleVars, confVars, engVars, batchVars, moveVars>>

StripNext == StripLeechTag

----------------------------------------------------------------------------
(* main.py: RulesConfigDialog, the rules table and its buttons.
   Rows are numbered from 0 as in the source; row r of the table is the
   (r + 1)-th element of the sequence. A row is what its widgets hold: the
   data of the deck, note type and action combos and the value of the delay
   spin box (0 is shown as N/A). *)

\* sorted(...): the members of a set of row numbers in increasing order
RECURSIVE Sorted(_)
Sorted(S) ==
    IF S = {} THEN <<>>
    ELSE LET least == CHOOSE r \in S : \A q \in S : r <= q
         IN  <<least>> \o Sorted(S \ {least})

\* reversed(...)
Reversed(seq) == [k \in 1..Len(seq) |-> seq[Len(seq) + 1 - k]]

\* _build_deck_choices and _build_note_type_choices on the host's
\* collection: "*" first, then the names in sorted order
DeckChoices == <<S_star, <<"A">>, <<"B">> >>
NoteTypeChoices == <<S_star, <<"B">> >>

\* _create_combo: the data of the option the combo shows for the value; the
\* first option when findData does not find the value
_create_combo(options, value) ==
    IF value.t = "str" /\ \E i \in 1..Len(options) : options[i] = value.s
    THEN value.s
    ELSE options[1]

\* the largest value the delay spin box takes
SpinMaximum == 365

\* QSpinBox.setValue between the minimum and the maximum of the box
SpinValue(minimum, value) ==
    IF value < minimum THEN minimum
    ELSE IF value > SpinMaximum THEN SpinMaximum
    ELSE value

\* _create_delay_spin: the value of the new spin box and its
\* last_delay_value property (0 when the property is not set)
_create_delay_spin(delay_value) ==
    LET value == IF delay_value # PyNone THEN delay_value.n ELSE 0
    IN  [value |-> SpinValue(0, IF value > 0 THEN value ELSE 0),
         last_delay_value |-> IF value > 0 THEN value ELSE 0]

\* _on_delay_value_changed: the last_delay_value property afterwards
_on_delay_value_changed(spin, value) ==
    IF value > 0 THEN value ELSE spin.last_delay_value

\* _sync_delay_enabled: the value and the last_delay_value property the spin
\* box holds afterwards; enabled tells whether the box was enabled before.
\* Raising the minimum to 1 lifts a value of 0 to 1 before it is read
_sync_delay_enabled(action_data, spin, enabled) ==
    IF action_data = S_delay
    THEN LET current == SpinValue(1, spin.value)
             fallback == IF spin.last_delay_value > 0 THEN spin.last_delay_value
                         ELSE IF current > 0 THEN current ELSE 7
         IN  [value |-> SpinValue(1, fallback), last_delay_value |-> fallback]
    ELSE [value |-> 0,
          last_delay_value |-> IF enabled /\ spin.value > 0 THEN spin.value
                               ELSE spin.last_delay_value]

\* the rule of a row added without a rule
DefaultRule == Rule(PyStrV(S_star), PyStrV(S_star), S_reset, PyNone)

\* _add_rule_row: the row the table gets for the rule: what its combo boxes
\* show, the value of its spin box and the spin box's last_delay_value
\* property (0 when not set)
_add_rule_row(rule) ==
    LET action_data == IF rule.action \in ALLOWED_ACTIONS THEN rule.action ELSE S_reset
        delay_spin == _sync_delay_enabled(
                          action_data,
                          _create_delay_spin(IF rule.action = S_delay THEN rule.delay_days
                                             ELSE PyNone),
                          TRUE)
    IN  [deck |-> _create_combo(DeckChoices, rule.deck),
         note_type |-> _create_combo(NoteTypeChoices, rule.note_type),
         action |-> action_data,
         delay |-> delay_spin.value,
         last_delay_value |-> delay_spin.last_delay_value]

\* _selected_rows: the selected row numbers, sorted
_selected_rows(sel) == Sorted(sel)

\* _collect_rules: the rule each row shows, top row first
_collect_rules(tbl) ==
    [i \in 1..Len(tbl) |->
        Rule(PyStrV(tbl[i].deck), PyStrV(tbl[i].note_type), tbl[i].action,
             IF tbl[i].action = S_delay
             THEN PyIntV(IF tbl[i].delay > 1 THEN tbl[i].delay ELSE 1)
             ELSE PyNone)]

\* _populate_rules: the table rebuilt with one row per rule, nothing selected
_populate_rules(rules) ==
    [table |-> [i \in 1..Len(rules) |-> _add_rule_row(rules[i])], selection |-> {}]

\* the loop of _select_rows: selectRow on every row of the list that the
\* table has; selectRow replaces the selection or extends it, as the host does
RECURSIVE SelectLoop(_, _, _, _, _)
SelectLoop(row_count, rows, k, sel, select_row) ==
    IF k > Len(rows) THEN sel
    ELSE IF 0 <= rows[k] /\ rows[k] < row_count
         THEN SelectLoop(row_count, rows, k + 1,
                         IF select_row = "replace" THEN {rows[k]} ELSE sel \cup {rows[k]},
                         select_row)
         ELSE SelectLoop(row_count, rows, k + 1, sel, select_row)

\* _select_rows: the selection cleared, then the loop
_select_rows(tbl, rows, select_row) == SelectLoop(Len(tbl), rows, 1, {}, select_row)

\* rules[a], rules[b] = rules[b], rules[a] for row numbers a and b
SwapRows(rules, a, b) == [rules EXCEPT ![a + 1] = rules[b + 1], ![b + 1] = rules[a + 1]]

\* the loop of the branch direction < 0, from the k-th selected row on
RECURSIVE MoveUpLoop(_, _, _, _)
MoveUpLoop(rules, rows, k, new_positions) ==
    IF k > Len(rows) THEN [rules |-> rules, new_positions |-> new_positions]
    ELSE IF rows[k] = 0
         THEN MoveUpLoop(rules, rows, k + 1, Append(new_positions, rows[k]))
         ELSE MoveUpLoop(SwapRows(rules, rows[k] - 1, rows[k]), rows, k + 1,
                         Append(new_positions, rows[k] - 1))

\* the loop of the other branch, over the selected rows from the bottom up
RECURSIVE MoveDownLoop(_, _, _, _, _)
MoveDownLoop(rules, rows, k, new_positions, row_count) ==
    IF k > Len(rows) THEN [rules |-> rules, new_positions |-> new_positions]
    ELSE IF rows[k] >= row_count - 1
         THEN MoveDownLoop(rules, rows, k + 1, Append(new_positions, rows[k]), row_count)
         ELSE MoveDownLoop(SwapRows(rules, rows[k], rows[k] + 1), rows, k + 1,
                           Append(new_positions, rows[k] + 1), row_count)

\* the table and the selection _move_selected_rows leaves
_move_selected_rows(tbl, sel, direction, select_row) ==
    LET row_count == Len(tbl)
        selected_rows == _selected_rows(sel)
    IN  IF row_count < 2 \/ direction = 0 THEN [table |-> tbl, selection |-> sel]
        ELSE IF selected_rows = <<>> THEN [table |-> tbl, selection |-> sel]
        ELSE LET moved == IF direction < 0
                          THEN MoveUpLoop(_collect_rules(tbl), selected_rows, 1, <<>>)
                          ELSE MoveDownLoop(_collect_rules(tbl), Reversed(selected_rows), 1,
                                            <<>>, row_count)
                 shown == _populate_rules(moved.rules)
             IN  [table |-> shown.table,
                  selection |-> _select_rows(shown.table,
                                    Sorted({moved.new_positions[k] :
                                              k \in 1..Len(moved.new_positions)}),
                                    select_row)]

\* the loop of _remove_selected_rows, over the selected rows from the bottom
\* up, with QTableWidget.removeRow on each
RECURSIVE RemoveLoop(_, _, _)
RemoveLoop(tbl, rows, k) ==
    IF k > Len(rows) THEN tbl
    ELSE RemoveLoop(SubSeq(tbl, 1, rows[k]) \o SubSeq(tbl, rows[k] + 2, Len(tbl)),
                    rows, k + 1)

\* _remove_selected_rows: the rows removed take their selection with them
_remove_selected_rows(tbl, sel) ==
    [table |-> RemoveLoop(tbl, Reversed(_selected_rows(sel)), 1), selection |-> {}]

\* _save: save_rules on the rules of the table and the two check boxes
_save(config, tbl, auto_run_checked, notification_checked) ==
    save_rules(config, _collect_rules(tbl), PyBool(auto_run_checked),
               PyBool(notification_checked))

\* the directions the two buttons and a caller can give
Directions == {0 - 1, 0, 1}

NoMove == [ran |-> FALSE, direction |-> 0, preTable |-> <<>>, preSelection |-> {}]

\* the rules the manager hands to the dialog: a deck the collection has, a
\* delay above the largest the spin box takes, a deck the collection no
\* longer has, and the rule of a new row
DialogRules ==
    <<Rule(PyStrV(<<"A">>), PyStrV(S_star), S_delete, PyNone),
      Rule(PyStrV(S_star), PyStrV(<<"B">>), S_delay, PyIntV(400)),
      Rule(PyStrV(<<"Z">>), PyStrV(S_star), S_remove_tag, PyNone),
      DefaultRule>>

\* the dialog as _load_rules leaves it on a manager holding the first n of
\* these rules, taken round, with any rows selected by the user
MoveStart ==
    /\ \E rules \in {[i \in 1..n |-> DialogRules[((i - 1) % Len(DialogRules)) + 1]] :
                        n \in 0..MaxRows} :
        /\ table = _populate_rules(rules).table
        /\ cfgInput = DictSet(run_migrations(EmptyDict).config, "rules", PyList(Len(rules)))
        /\ loaded = [ran |-> TRUE, raised |-> "none", config |-> cfgInput, wrote |-> FALSE,
                     saved |-> [i \in 1..Len(rules) |-> to_dict(rules[i])]]
    /\ selection \in SUBSET (0..(Len(table) - 1))
    /\ move = NoMove
    /\ edits = 0
    /\ first = NotRun
    /\ second = NotRun
    /\ mphase = "dialog"
    /\ configTag = PyStrV(S_leech)
    /\ \E select_row \in {"replace", "extend"} : host = [DefaultHost EXCEPT !.select_row = select_row]

\* the user selects the given rows of the table; the state no longer shows
\* the outcome of a move
SelectRows(rows) ==
    /\ mphase = "dialog"
    /\ rows \subseteq 0..(Len(table) - 1)
    /\ rows # selection
    /\ selection' = rows
    /\ move' = NoMove
    /\ UNCHANGED <<table, edits>>
    /\ UNCHANGED <<migVars, ruleVars, confVars, engVars, batchVars, stripVars>>

\* _move_selected_rows(direction)
MoveSelectedRows(direction) ==
    /\ mphase = "dialog"
    /\ \E res \in {_move_selected_rows(table, selection, direction, host.select_row)} :
            /\ table' = res.table
            /\ selection' = res.selection
    /\ move' = [ran |-> TRUE, direction |-> direction,
                preTable |-> table, preSelection |-> selection]
    /\ UNCHANGED edits
    /\ UNCHANGED <<migVars, ruleVars, confVars, engVars, batchVars, stripVars>>

\* the button Remove selected
RemoveSelectedRows ==
    /\ mphase = "dialog"
    /\ selection # {}
    /\ \E res \in {_remove_selected_rows(table, selection)} :
            /\ table' = res.table
            /\ selection' = res.selection
    /\ move' = NoMove
    /\ UNCHANGED edits
    /\ UNCHANGED <<migVars, ruleVars, confVars, engVars, batchVars, stripVars>>

\* the button Add rule: _add_rule_row() appends the row of the default rule
AddRuleRow ==
    /\ mphase = "dialog"
    /\ Len(table) < MaxRows
    /\ table' = Append(table, _add_rule_row(DefaultRule))
    /\ move' = NoMove
    /\ UNCHANGED <<selection, edits>>
    /\ UNCHANGED <<migVars, ruleVars, confVars, engVars, batchVars, stripVars>>

\* the user picks another option in the deck combo box (column 1) or the
\* note type combo box (column 2) of a row; no slot is connected to these
ChangeChoice(row, column, data) ==
    /\ mphase = "dialog"
    /\ edits < MaxEdits
    /\ row < Len(table)
    /\ \/ /\ column = 1
          /\ \E i \in 1..Len(DeckChoices) : DeckChoices[i] = data
          /\ data # table[row + 1].deck
          /\ table' = [table EXCEPT ![row + 1].deck = data]
       \/ /\ column = 2
          /\ \E i \in 1..Len(NoteTypeChoices) : NoteTypeChoices[i] = data
          /\ data # table[row + 1].note_type
          /\ table' = [table EXCEPT ![row + 1].note_type = data]
    /\ edits' = edits + 1
    /\ move' = NoMove
    /\ UNCHANGED selection
    /\ UNCHANGED <<migVars, ruleVars, confVars, engVars, batchVars, stripVars>>

\* the user picks another action in the combo box of a row: the slot
\* connected to currentIndexChanged runs _sync_delay_enabled on the row
ChangeAction(row, action_data) ==
    /\ mphase = "dialog"
    /\ edits < MaxEdits
    /\ row < Len(table)
    /\ action_data # table[row + 1].action
    /\ \E spin \in {_sync_delay_enabled(
                        action_data,
                        [value |-> table[row + 1].delay,
                         last_delay_value |-> table[row + 1].last_delay_value],
                        table[row + 1].action = S_delay)} :
            table' = [table EXCEPT ![row + 1] =
                        [@ EXCEPT !.action = action_data, !.delay = spin.value,
                                  !.last_delay_value = spin.last_delay_value]]
    /\ edits' = edits + 1
    /\ move' = NoMove
    /\ UNCHANGED selection
    /\ UNCHANGED <<migVars, ruleVars, confVars, engVars, batchVars, stripVars>>

\* the user sets the spin box of a row, which is enabled in a delay row only
\* and takes values from 1 to 365 there: the slot connected to valueChanged
\* runs _on_delay_value_changed
ChangeDelay(row, value) ==
    /\ mphase = "dialog"
    /\ edits < MaxEdits
    /\ row < Len(table)
    /\ table[row + 1].action = S_delay
    /\ SpinValue(1, value) # table[row + 1].delay
    /\ table' = [table EXCEPT ![row + 1] =
                    [@ EXCEPT !.delay = SpinValue(1, value),
                              !.last_delay_value =
                                  _on_delay_value_changed(
                                      [value |-> table[row + 1].delay,
                                       last_delay_value |-> @],
                                      SpinValue(1, value))]]
    /\ edits' = edits + 1
    /\ move' = NoMove
    /\ UNCHANGED selection
    /\ UNCHANGED <<migVars, ruleVars, confVars, engVars, batchVars, stripVars>>

\* the button Save: _save stores the table and closes the dialog
Save(auto_run_checked, notification_checked) ==
    /\ mphase = "dialog"
    /\ \E res \in {_save(loaded.config, table, auto_run_checked, notification_checked)} :
            loaded' = [loaded EXCEPT !.config = res.config, !.saved = res.saved,
                                     !.wrote = TRUE]
    /\ mphase' = "saved"
    /\ UNCHANGED <<cfgInput, first, second>>
    /\ UNCHANGED <<ruleVars, confVars, engVars, batchVars, stripVars, moveVars>>

MoveNext ==
    \/ \E direction \in Directions : MoveSelectedRows(direction)
    \/ \E rows \in SUBSET (0..(MaxRows - 1)) : SelectRows(rows)
    \/ RemoveSelectedRows
    \/ AddRuleRow
    \/ \E row \in 0..(MaxRows - 1), column \in {1, 2},
          data \in {DeckChoices[i] : i \in 1..Len(DeckChoices)} :
            ChangeChoice(row, column, data)
    \/ \E row \in 0..(MaxRows - 1), action_data \in ALLOWED_ACTIONS :
            ChangeAction(row, action_data)
    \/ \E row \in 0..(MaxRows - 1), value \in {0, 2, SpinMaximum + 1} :
            ChangeDelay(row, value)
    \/ \E auto_run_checked \in BOOLEAN, notification_checked \in BOOLEAN :
            Save(auto_run_checked, notification_checked)

----------------------------------------------------------------------------
(* Specifications: each scenario runs with the other two at rest *)

MigIdle ==
    /\ cfgInput = EmptyDict
    /\ first = NotRun
    /\ second = NotRun
    /\ loaded = NotLoaded
    /\ mphase = "idle"

RuleIdle ==
    /\ rawRule = EmptyDict
    /\ ruleRes = [ran |-> TRUE, raised |-> "none", rule |-> NoRule]

ConfIdle ==
    /\ configTag = PyStrV(S_leech)
    /\ host = DefaultHost

EngIdle ==
    /\ configRules = config_rules(<<>>)
    /\ cards = <<>>
    /\ notes = <<>>
    /\ last = NoCall
    /\ calls = MaxCalls

BatchIdle == batch = [NoBatch EXCEPT !.ran = TRUE]

StripIdle == strip = <<>>

MoveIdle ==
    /\ table = <<>>
    /\ selection = {}
    /\ move = <<>>
    /\ edits = 0

MigInit == MigStart /\ ConfIdle /\ RuleIdle /\ EngIdle /\ BatchIdle /\ StripIdle /\ MoveIdle
RuleInit == RuleStart /\ ConfIdle /\ MigIdle /\ EngIdle /\ BatchIdle /\ StripIdle /\ MoveIdle
Init == EngInit /\ MigIdle /\ RuleIdle /\ BatchIdle /\ StripIdle /\ MoveIdle

\* a collection and a rule list on which no call has been made, process_cards pending
BatchInit ==
    /\ \E n \in 0..MaxRules : \E raw_rules \in [1..n -> BatchRuleEntries] :
            configRules = config_rules(raw_rules)
    /\ \E d1 \in {D_A, D_AB}, n2 \in NoteIds :
            cards = [c \in CardIds |-> IF c = 1 THEN NewCard(d1, 1) ELSE NewCard(D_B, n2)]
    /\ \E t1 \in {<<S_leech>>, <<T_x, S_leech, S_leech>>} :
            notes = [n \in NoteIds |-> IF n = 1 THEN [tags |-> t1, model |-> D_B]
                                                ELSE [tags |-> <<S_leech, T_x>>, model |-> <<>>]]
    /\ last = NoCall
    /\ calls = MaxCalls
    /\ batch = NoBatch
    /\ \E tag \in ConfiguredTags, getter \in {"finds", "raises", "absent"} :
            /\ (getter = "finds" \/ tag = PyStrV(S_leech))
            /\ configTag = tag
            /\ host = [DefaultHost EXCEPT !.get_card = getter]
    /\ MigIdle /\ RuleIdle /\ StripIdle /\ MoveIdle

StripInit == StripStart /\ MigIdle /\ RuleIdle /\ EngIdle /\ BatchIdle /\ MoveIdle

MoveInit == MoveStart /\ RuleIdle /\ EngIdle /\ BatchIdle /\ StripIdle

MigNext ==
    \/ RunMigrations
    \/ RunMigrationsAgain
    \/ EnsureConfig
    \/ \E rules \in SavedRuleLists, auto_run_enabled \in {PyTrue, PyFalse, PyIntV(1)},
          show_auto_notifications \in {PyTrue, PyFalse} :
            SaveRules(rules, auto_run_enabled, show_auto_notifications)

BatchNext == \E ids \in IdLists, simulate \in BOOLEAN : ProcessCards(ids, simulate)

Next == \E cid \in CardIds, simulate \in BOOLEAN : ApplyRulesToCard(cid, simulate)

\* the rule engine on a collection
Spec == Init /\ [][Next]_vars

\* process_cards on a collection
SpecBatch == BatchInit /\ [][BatchNext]_vars

\* _strip_leech_tag called repeatedly on one note
SpecStrip == StripInit /\ [][StripNext]_vars

\* the rules table under _move_selected_rows and changes of selection
SpecMove == MoveInit /\ [][MoveNext]_vars

\* the migration chain on a raw configuration
SpecMigrations == MigInit /\ [][MigNext]_vars

\* Rule.from_raw on a raw rule entry
SpecRule == RuleInit /\ [][RuleNext]_vars

----------------------------------------------------------------------------
(* Claims about Rule.from_raw, checked under SpecRule *)

\* the raw action, stripped and lower-cased, is the value or the label of
\* the delay action
SuppliedActionIsDelay(data) ==
    LET a == Lower(Strip(PyStr(DictGetOr(data, "action", PyStrV(S_reset)))))
    IN  \E i \in 1..Len(ACTION_OPTIONS) :
            /\ ACTION_OPTIONS[i][2] = S_delay
            /\ a \in {ACTION_OPTIONS[i][2], Lower(ACTION_OPTIONS[i][1])}

\* C7: from_raw returns a Rule in which, under action delay, a supplied
\* integer below 1 has become 1, an integer n >= 1 stays n and a null or
\* missing value has become 7, and in which, under any other action,
\* delay_days is null whatever value was supplied; so delay_days is null iff
\* the action is not delay, and is an integer >= 1 otherwise.
C7_DelayDaysNormalized ==
    ruleRes.ran =>
        LET supplied == DictGet(rawRule, "delay_days")
            r == ruleRes.rule
        IN  /\ (SuppliedActionIsDelay(rawRule) /\ supplied.t \in {"int", "none"}) =>
                /\ ruleRes.raised = "none"
                /\ r.action = S_delay
                /\ r.delay_days = IF supplied.t = "none" THEN PyIntV(7)
                                  ELSE IF supplied.n < 1 THEN PyIntV(1)
                                  ELSE supplied
            /\ ~SuppliedActionIsDelay(rawRule) =>
                /\ ruleRes.raised = "none"
                /\ r.action # S_delay
                /\ r.delay_days = PyNone
            /\ ruleRes.raised = "none" =>
                /\ (r.delay_days = PyNone) <=> (r.action # S_delay)
                /\ r.action = S_delay => (r.delay_days.t = "int" /\ r.delay_days.n >= 1)

\* every Rule that from_raw does return is normalized as C7 says, and it
\* returns one whenever the supplied delay_days is an integer, null or missing
DelayDaysNormalizedWhereReturned ==
    ruleRes.ran =>
        LET supplied == DictGet(rawRule, "delay_days")
            r == ruleRes.rule
        IN  /\ supplied.t \in {"int", "none"} => ruleRes.raised = "none"
            /\ ruleRes.raised = "none" =>
                /\ r.action = S_delay <=> SuppliedActionIsDelay(rawRule)
                /\ (r.action = S_delay /\ supplied.t = "int" /\ supplied.n < 1) =>
                        r.delay_days = PyIntV(1)
                /\ (r.action = S_delay /\ supplied.t = "int" /\ supplied.n >= 1) =>
                        r.delay_days = supplied
                /\ (r.action = S_delay /\ supplied.t = "none") => r.delay_days = PyIntV(7)
                /\ r.action # S_delay => r.delay_days = PyNone
                /\ (r.delay_days = PyNone) <=> (r.action # S_delay)
                /\ r.action = S_delay => (r.delay_days.t = "int" /\ r.delay_days.n >= 1)

\* the raw action, stripped and lower-cased, is a known value or label
ActionRecognized(data) ==
    LET a == Lower(Strip(PyStr(DictGetOr(data, "action", PyStrV(S_reset)))))
    IN  \E i \in 1..Len(ACTION_OPTIONS) : a \in {ACTION_OPTIONS[i][2], Lower(ACTION_OPTIONS[i][1])}

\* C8: a malformed rule entry never surfaces an error: from_raw returns a
\* Rule for every raw entry, with an unrecognized action normalized to reset
\* and an invalid delay_days replaced by the default.
C8_MalformedEntryRecovered ==
    ruleRes.ran =>
        LET supplied == DictGet(rawRule, "delay_days")
            r == ruleRes.rule
        IN  /\ ruleRes.raised = "none"
            /\ ~ActionRecognized(rawRule) => r.action = S_reset
            /\ (r.action = S_delay /\ PyInt(supplied).exc # "none") => r.delay_days = PyIntV(7)

----------------------------------------------------------------------------
(* Claims about the rule engine, checked under Spec *)

Total(summary) ==
    summary.delete + summary.reset + summary.delay + summary.reset_lapses
        + summary.remove_tag + summary.skipped

SummaryKeys == {"delete", "reset", "delay", "reset_lapses", "remove_tag", "skipped"}

\* the card and the names the last call matched on
LastCard == last.preCards[last.cid]
LastNote == last.preNotes[LastCard.nid]

\* the last call returned its tally
Returned == last.ran /\ last.raised = "none"

\* the rules of the list whose patterns match the card of the last call
Matching ==
    {i \in 1..Len(configRules.rules) :
        \E test \in {_rule_matches(configRules.rules[i], LastCard.deck, LastNote.model)} :
            test.raised = "none" /\ test.match}

MatchingDeletes == {i \in Matching : configRules.rules[i].action = S_delete}

\* the first matching delete rule, or the end of the list
StopAt ==
    CHOOSE stop \in
        {IF deletes = {} THEN Len(configRules.rules)
         ELSE CHOOSE i \in deletes : \A j \in deletes : i <= j :
            deletes \in {MatchingDeletes}} : TRUE

StoreUntouched == last.log = <<>> /\ cards = last.preCards /\ notes = last.preNotes

\* C1: a simulated call mutates nothing in the host store and returns the
\* tally the non-simulated call returns from the same starting state (the
\* one raises exactly when the other does, with the same exception).
C1_PreviewEqualsCommit ==
    last.ran =>
        /\ last.simulate => StoreUntouched
        /\ \E other \in {apply_rules_to_card(configRules, last.preCards, last.preNotes,
                                              last.cid, ~last.simulate)} :
                /\ other.raised = last.raised
                /\ last.raised = "none" => last.summary = other.summary

\* a simulated call whose rule list deletes the card, which is still there
C1_Witness ==
    /\ Returned
    /\ last.simulate
    /\ last.summary.delete = 1
    /\ cards[last.cid].live
    /\ \E i \in 1..Len(LastNote.tags) : LastNote.tags[i] = leech_tag

\* C2 as stated: one call increments exactly one key, by exactly 1.
C2_ExactlyOneIncrement ==
    Returned =>
        /\ Total(last.summary) = 1
        /\ \E k \in SummaryKeys : last.summary[k] = 1

\* C2 amended: the counts of one call sum to the number of matching rules
\* up to and including the first matching delete rule, or to 1 (skipped)
\* when no rule matches; so exactly one key is incremented by 1 when at most
\* one such rule exists, and skipped is never counted next to an action.
C2_OneIncrementPerFiredRule ==
    Returned =>
        \E stop \in {StopAt} : \E firing \in {{i \in Matching : i <= stop}} :
            /\ Total(last.summary) = IF firing = {} THEN 1 ELSE Cardinality(firing)
            /\ Cardinality(firing) <= 1 =>
                    \E k \in SummaryKeys :
                        last.summary = [_empty_summary EXCEPT ![k] = 1]
            /\ last.summary.skipped > 0 => Total(last.summary) = 1

\* one call that fired two rules for its card
C2_Witness ==
    /\ Returned
    /\ Total(last.summary) = 2
    /\ Len(last.fired) = 2

\* positions of the log holding a call of the given kind
LogPositions(kind) == {p \in 1..Len(last.log) : last.log[p][1] = kind}

\* C3: when a delete rule matches in a non-simulated call, no later rule is
\* matched or executed, and the leech tag is stripped from the note (tags
\* changed and note flushed) before the card is removed, never after.
C3_DeleteHaltsAfterStrip ==
    (Returned /\ ~last.simulate /\ MatchingDeletes # {}) =>
        /\ \E stop \in {StopAt} :
                /\ \A j \in 1..Len(last.evaluated) : last.evaluated[j] <= stop
                /\ last.fired # <<>> /\ last.fired[Len(last.fired)] = stop
        /\ last.summary.delete = 1
        /\ last.log # <<>> /\ last.log[Len(last.log)] = <<"rem_cards", last.cid>>
        /\ LogPositions("rem_cards") = {Len(last.log)}
        /\ \A p \in LogPositions("note_flush") : p < Len(last.log)
        /\ ~cards[last.cid].live
        /\ \A i \in 1..Len(notes[LastCard.nid].tags) : notes[LastCard.nid].tags[i] # leech_tag
        /\ (\E i \in 1..Len(LastNote.tags) : LastNote.tags[i] = leech_tag) =>
                LogPositions("note_flush") # {}

\* a delete rule fired first, stripped the tag, removed the card, and left a
\* later matching rule unevaluated
C3_Witness ==
    /\ Returned
    /\ ~last.simulate
    /\ last.fired = <<1>>
    /\ last.evaluated = <<1>>
    /\ 2 \in Matching
    /\ last.log = << <<"note_flush", LastCard.nid>>, <<"rem_cards", last.cid>> >>

\* C4: skipped is incremented, by exactly 1 with every other count 0 and
\* the store untouched, iff no rule matches the card's deck and note-type
\* names; with an empty rule list the outcome is always skipped = 1.
C4_SkippedIffNoMatch ==
    /\ Returned =>
            /\ (last.summary.skipped > 0) <=> (Matching = {})
            /\ Matching = {} =>
                    (last.summary = [_empty_summary EXCEPT !.skipped = 1] /\ StoreUntouched)
    /\ (last.ran /\ configRules = config_rules(<<>>)) =>
            (last.raised = "none" /\ last.summary = [_empty_summary EXCEPT !.skipped = 1])

\* a non-simulated call with a non-empty rule list of which no rule matches
C4_Witness ==
    /\ Returned
    /\ ~last.simulate
    /\ configRules.rules # <<>>
    /\ last.summary.skipped = 1
    /\ Len(last.evaluated) = Len(configRules.rules)

----------------------------------------------------------------------------
(* Claims about the migration chain, checked under SpecMigrations *)

\* C5: run_migrations is idempotent: run on the result of a first run it
\* returns the same configuration and reports was_changed = false.
C5_MigrationsIdempotent ==
    mphase = "twice" =>
        /\ second.raised = "none"
        /\ second.config = first.config
        /\ second.updated = FALSE

\* a second run after a first run that applied steps to a configuration
\* that carried a schema_version
C5_Witness ==
    /\ mphase = "twice"
    /\ first.updated
    /\ "schema_version" \in DOMAIN cfgInput

\* the schema_version of a loaded configuration
LoadedVersion == DictGet(loaded.config, "schema_version")

\* C6 as stated: after a successful load schema_version equals the latest
\* schema version, whatever schema_version was stored.
C6_LoadedVersionIsLatest ==
    (loaded.ran /\ loaded.raised = "none") => LoadedVersion = PyIntV(CURRENT_SCHEMA_VERSION)

\* C6 amended: after a successful load (and before any save_rules, which
\* stamps the latest version) schema_version equals the latest version when
\* the stored value reads as a version below the latest; a stored value that
\* reads as the latest version or a later one is left exactly as stored, and
\* the configuration with it.
C6_LoadedVersionLatestOrKept ==
    (mphase = "loaded" /\ loaded.raised = "none") =>
        LET stored == DictGet(cfgInput, "schema_version")
            reads == ReadVersion(cfgInput).n
        IN  /\ reads < CURRENT_SCHEMA_VERSION => LoadedVersion = PyIntV(CURRENT_SCHEMA_VERSION)
            /\ reads >= CURRENT_SCHEMA_VERSION => loaded.config = cfgInput
            /\ stored.t = "int" /\ stored.n > CURRENT_SCHEMA_VERSION => LoadedVersion = stored
            /\ stored.t = "int" /\ stored.n < CURRENT_SCHEMA_VERSION =>
                    LoadedVersion = PyIntV(CURRENT_SCHEMA_VERSION)

\* a load that kept a stored version above the latest one
C6_Witness ==
    /\ loaded.ran
    /\ loaded.raised = "none"
    /\ DictGet(cfgInput, "schema_version") = PyIntV(CURRENT_SCHEMA_VERSION + 2)
    /\ LoadedVersion = PyIntV(CURRENT_SCHEMA_VERSION + 2)
    /\ ~loaded.wrote

\* every step of the chain has left its mark on the configuration
AllStepsRan(config) ==
    /\ {"leech_tag", "rules", "auto_run_enabled", "show_auto_notifications"} \subseteq DOMAIN config
    /\ config["rules"].t = "list"
    /\ DictGet(config, "schema_version") = PyIntV(CURRENT_SCHEMA_VERSION)

\* a stored schema_version that is missing, null or not a number
VersionNotNumeric(config) ==
    LET v == DictGet(config, "schema_version")
    IN  \/ v.t \in {"none", "list", "dict"}
        \/ v.t = "str" /\ ParseInt(v.s).exc # "none"

\* C9: run_migrations never raises on the schema_version field, whatever
\* value it holds; a missing, null or non-numeric schema_version is read as
\* version 0, so every step runs and the result carries the latest version.
C9_MalformedVersionIsZero ==
    first.ran =>
        /\ first.raised = "none"
        /\ VersionNotNumeric(cfgInput) => (first.updated /\ AllStepsRan(first.config))

\* C10: run_migrations on the empty configuration returns every default,
\* the latest schema_version and was_changed = true.
C10_EmptyConfigDefaults ==
    (first.ran /\ cfgInput = EmptyDict) =>
        /\ first.raised = "none"
        /\ first.updated = TRUE
        /\ first.config = [leech_tag |-> PyStrV(S_leech),
                           rules |-> PyList(0),
                           auto_run_enabled |-> PyTrue,
                           show_auto_notifications |-> PyTrue,
                           schema_version |-> PyIntV(CURRENT_SCHEMA_VERSION)]

\* run_migrations has run on the empty configuration
C10_Witness == first.ran /\ cfgInput = EmptyDict /\ DOMAIN first.config # {}

\* C11 as stated: run_migrations removes no key and leaves the value of
\* every key present in the input unchanged, schema_version excepted.
C11_PresentKeysUntouched ==
    (first.ran /\ first.raised = "none") =>
        /\ DOMAIN cfgInput \subseteq DOMAIN first.config
        /\ \A k \in DOMAIN cfgInput \ {"schema_version"} : first.config[k] = cfgInput[k]

\* C11 amended: run_migrations removes no key and leaves the value of every
\* key present in the input unchanged, except schema_version and except a
\* present rules value that is not a list, which step v1 (run when the stored
\* version reads below 1) replaces by the empty list.
C11_PresentKeysUntouchedButBadRules ==
    (first.ran /\ first.raised = "none") =>
        /\ DOMAIN cfgInput \subseteq DOMAIN first.config
        /\ \A k \in DOMAIN cfgInput \ {"schema_version"} :
                IF k = "rules" /\ cfgInput[k].t # "list" /\ ReadVersion(cfgInput).n < 1
                THEN first.config[k] = PyList(0)
                ELSE first.config[k] = cfgInput[k]

\* a run that replaced a rules value that was a string and kept the flags,
\* the tag and the unknown key as stored
C11_Witness ==
    /\ first.ran
    /\ first.raised = "none"
    /\ DictGet(cfgInput, "rules").t = "str"
    /\ first.config["rules"] = PyList(0)
    /\ DictGet(cfgInput, "auto_run_enabled") = PyFalse
    /\ first.config["auto_run_enabled"] = PyFalse
    /\ "extra" \in DOMAIN cfgInput
    /\ first.config["extra"] = cfgInput["extra"]

----------------------------------------------------------------------------
(* Claims about process_cards, checked under SpecBatch *)

RECURSIVE SumSummaries(_)
SumSummaries(seq) ==
    IF seq = <<>> THEN _empty_summary
    ELSE AddSummary(SumSummaries(Tail(seq)), Head(seq))

\* the lookup of the id of a step gives a card
LookupFinds(step) ==
    /\ host.get_card # "absent"
    /\ step.cid \in DOMAIN step.preCards
    /\ step.preCards[step.cid].live

\* C12: process_cards visits the ids in input order and returns the per-key
\* sum of one contribution per id: skipped = 1 when the lookup gives no card,
\* else the outcome of apply_rules_to_card on the store as the earlier ids
\* left it; a lookup that gives no card raises nothing (the call raises only
\* what apply_rules_to_card raises on a card that is there, or what the
\* host's get_card itself raises), and an empty list gives the all-zero
\* outcome without any call to the host store.
C12_BatchSumsPerCardOutcomes ==
    batch.ran =>
        /\ Len(batch.steps) <= Len(batch.ids)
        /\ batch.raised = "none" => Len(batch.steps) = Len(batch.ids)
        /\ batch.raised # "none" =>
                (batch.steps # <<>> /\ batch.steps[Len(batch.steps)].raised = batch.raised)
        /\ \A i \in 1..Len(batch.steps) :
            LET step == batch.steps[i]
            IN  /\ step.cid = batch.ids[i]
                /\ i < Len(batch.steps) => step.raised = "none"
                /\ step.found = LookupFinds(step)
                /\ ~LookupFinds(step) =>
                        /\ step.raised # "none" => host.get_card = "raises"
                        /\ step.raised = "none" =>
                                step.summary = [_empty_summary EXCEPT !.skipped = 1]
                /\ LookupFinds(step) =>
                        \E alone \in {apply_rules_to_card(configRules, step.preCards,
                                            step.preNotes, step.cid, batch.simulate)} :
                            /\ step.raised = alone.raised
                            /\ step.raised = "none" => step.summary = alone.summary
                            /\ i < Len(batch.steps) =>
                                    batch.steps[i + 1].preCards = alone.cards
                /\ (~LookupFinds(step) /\ i < Len(batch.steps)) =>
                        batch.steps[i + 1].preCards = step.preCards
        /\ batch.steps # <<>> => batch.steps[1].preCards = batch.preCards
        /\ batch.raised = "none" =>
                /\ batch.total =
                        SumSummaries([i \in 1..Len(batch.steps) |-> batch.steps[i].summary])
                /\ Total(batch.total) >= Len(batch.ids)
        /\ batch.ids = <<>> =>
                (batch.raised = "none" /\ batch.total = _empty_summary /\ batch.log = <<>>)

\* a batch that skipped an id without a card and then ran a rule on a card
C12_Witness ==
    /\ batch.ran
    /\ batch.raised = "none"
    /\ Len(batch.ids) = 2
    /\ batch.ids[1] = MissingId
    /\ batch.total.skipped = 1
    /\ Total(batch.total) >= 2
    /\ batch.steps[2].found

----------------------------------------------------------------------------
(* Claim about _strip_leech_tag, checked under SpecStrip *)

\* number of occurrences of tag among the first n tags
TagCount(tags, tag, n) == Cardinality({i \in 1..n : tags[i] = tag})

\* after holds the tags of before other than tag, each at its place in order
KeepsOthersInOrder(before, after, tag) ==
    /\ Len(after) = Len(before) - TagCount(before, tag, Len(before))
    /\ \A i \in 1..Len(before) :
           before[i] # tag => after[i - TagCount(before, tag, i)] = before[i]

\* C13: the tag strip is idempotent: with the leech tag absent it changes
\* nothing and does not flush the note; with the tag present it removes every
\* occurrence, keeps the other tags in their order and flushes the note
\* exactly once (the stored note then holds the stripped tags); a second
\* strip in a row leaves the tags of the first and does not flush.
C13_StripIdempotent ==
    strip # <<>> =>
        \A k \in 1..Len(strip.calls) :
            LET call == strip.calls[k]
                present == \E i \in 1..Len(call.before) : call.before[i] = leech_tag
            IN  /\ ~present => (call.after = call.before /\ call.flushes = 0)
                /\ present =>
                       /\ \A i \in 1..Len(call.after) : call.after[i] # leech_tag
                       /\ KeepsOthersInOrder(call.before, call.after, leech_tag)
                       /\ call.flushes = 1
                /\ k > 1 =>
                       /\ call.after = strip.calls[k - 1].after
                       /\ call.flushes = 0
                /\ k = Len(strip.calls) =>
                       /\ strip.note.tags = call.after
                       /\ strip.stored.tags = IF call.flushes = 1 THEN call.after
                                              ELSE call.storedBefore

\* a note carrying the leech tag twice among other tags, stripped twice
C13_Witness ==
    /\ strip # <<>>
    /\ Len(strip.calls) = 2
    /\ TagCount(strip.calls[1].before, leech_tag, Len(strip.calls[1].before)) = 2
    /\ strip.calls[1].after = <<T_x>>
    /\ strip.calls[1].flushes = 1
    /\ strip.calls[2].flushes = 0

----------------------------------------------------------------------------
(* Claim about the walk over the rule list, checked under Spec *)

\* the matching rules at or before the first matching delete rule
Firing == UNION {{i \in Matching : i <= stop} : stop \in {StopAt}}

\* how many of the firing rules carry the given action
FiringWith(firing, action) ==
    Cardinality({i \in firing : configRules.rules[i].action = action})

\* the members of a set of rule positions in list order
RECURSIVE Ascending(_)
Ascending(S) ==
    IF S = {} THEN <<>>
    ELSE LET least == CHOOSE i \in S : \A j \in S : i <= j
         IN  <<least>> \o Ascending(S \ {least})

\* C14: rules are walked in list order and rules that do not match are
\* passed over; every matching rule that is not a delete fires in order and
\* the walk goes on after it, and only a fired delete stops the walk; so the
\* outcome of one call counts, per action, exactly the matching rules at or
\* before the first matching delete rule (all matching rules when no delete
\* rule matches).
C14_TallyCountsFiringRules ==
    Returned =>
        \E firing \in {Firing} :
            /\ last.evaluated = Ascending(1..StopAt)
            /\ last.fired = Ascending(firing)
            /\ last.summary.delete = FiringWith(firing, S_delete)
            /\ last.summary.reset = FiringWith(firing, S_reset)
            /\ last.summary.delay = FiringWith(firing, S_delay)
            /\ last.summary.reset_lapses = FiringWith(firing, S_reset_lapses)
            /\ last.summary.remove_tag = FiringWith(firing, S_remove_tag)

\* a call that passed over its first rule and fired its second
C14_Witness ==
    /\ Returned
    /\ last.evaluated = <<1, 2>>
    /\ last.fired = <<2>>
    /\ last.summary.skipped = 0
    /\ Total(last.summary) = 1

----------------------------------------------------------------------------
(* Claim about the preview and the run of process_cards, checked under SpecBatch *)

\* the tally process_cards returns from the starting store of the batch, or
\* the exception it raises
TallyFromStart(simulate) ==
    CHOOSE out \in
        {[raised |-> res.raised,
          total |-> IF res.raised = "none" THEN res.total ELSE _empty_summary] :
            res \in {process_cards(configRules, host.get_card, batch.preCards,
                                   batch.preNotes, batch.ids, simulate)}} : TRUE

\* no id occurs twice in the list
NoRepeatedId == \A i, j \in 1..Len(batch.ids) : batch.ids[i] = batch.ids[j] => i = j

\* C15: for every list of card ids, lists that repeat an id or hold several
\* cards of one note included, and every rule list, the simulated
\* process_cards returns the tally the non-simulated process_cards returns
\* from the same starting store.
C15_PreviewTallyEqualsRunTally ==
    batch.ran => TallyFromStart(TRUE) = TallyFromStart(FALSE)

\* the two tallies agree on every list that repeats no id, several cards of
\* one note included
PreviewEqualsRunWithoutRepeats ==
    (batch.ran /\ NoRepeatedId) => TallyFromStart(TRUE) = TallyFromStart(FALSE)

----------------------------------------------------------------------------
(* Claim about _move_selected_rows, checked under SpecMove *)

\* the one-to-one maps of the rows 1..n onto themselves
RowPermutations(n) == {f \in [1..n -> 1..n] : \A i, j \in 1..n : f[i] = f[j] => i = j}

\* f keeps the order of the rows whose selection state is `chosen`
KeepsOrderAmong(f, chosen) ==
    \A i, j \in DOMAIN f :
        (/\ i < j
         /\ ((i - 1) \in move.preSelection) = chosen
         /\ ((j - 1) \in move.preSelection) = chosen) => f[i] < f[j]

\* the move permutes the list, keeps the order among the selected and among
\* the unselected rules, and leaves the same rules selected: some
\* rearrangement of the rows does all of it
MoveKeepsOrderAndSelection ==
    /\ Len(table) = Len(move.preTable)
    /\ \E f \in RowPermutations(Len(table)) :
        /\ \A i \in 1..Len(table) :
                _collect_rules(table)[f[i]] = _collect_rules(move.preTable)[i]
        /\ KeepsOrderAmong(f, TRUE)
        /\ KeepsOrderAmong(f, FALSE)
        /\ selection = {f[r + 1] - 1 : r \in move.preSelection}

\* C16: moving the selected rows up or down gives a permutation of the rule
\* list in which the selected rules keep their order among themselves, the
\* unselected rules keep theirs, and the rows selected afterwards show
\* exactly the rules selected before, for every selection, one holding the
\* first row (move up) or the last row (move down) included.
C16_MoveKeepsOrderAndSelection ==
    move.ran => MoveKeepsOrderAndSelection

\* the selection has a row with no room to move in the given direction
SelectionAtEdge ==
    \/ move.direction < 0 /\ 0 \in move.preSelection
    \/ move.direction > 0 /\ Len(move.preTable) - 1 \in move.preSelection

\* the same holds for every move whose selection has room to move, when
\* selectRow extends the selection or a single row is selected
MoveAwayFromEdgeKeepsOrderAndSelection ==
    (/\ move.ran
     /\ ~SelectionAtEdge
     /\ (host.select_row = "extend" \/ Cardinality(move.preSelection) <= 1)) =>
        MoveKeepsOrderAndSelection

\* with one row selected every move keeps the order and the selection,
\* whatever selectRow does to the rows selected before
MoveOfOneRowKeepsOrderAndSelection ==
    (move.ran /\ Cardinality(move.preSelection) <= 1) => MoveKeepsOrderAndSelection

====
